---- MODULE Spec2Model ----
(***************************************************************************)
(* Model of the persistent path of the vector database: the KWI binary     *)
(* container (vector_db/src/binary_index.rs), the SQLite side-store        *)
(* (vector_db/src/sqlite_storage.rs) and the collection manager            *)
(* (vector_db/src/collection_manager.rs), for one collection name.         *)
(* Files are byte sequences; every read and write uses the byte offsets    *)
(* and widths of the source.  The later sections model one add of the      *)
(* container write by write, the removal of a collection, and the index    *)
(* family and query engine of src/index.rs, src/query.rs and               *)
(* src/storage.rs, each under a specification of its own.                  *)
(***************************************************************************)
EXTENDS Integers, Sequences, FiniteSets, TLC

\* ------------------------------------------------------------------ bounds
MaxOps == 5
MaxDim == 2
NumIds == 2

Dims == 1..MaxDim

\* ------------------------------------------------------- program constants
KWI_MAGIC == <<75, 87, 73, 0>>
KWI_VERSION == 1
\* ndarray's serde format tag, checked when an Array1 is deserialized
ARRAY_FORMAT_VERSION == 1
\* dimension handed to BinaryIndex::new by load_collection
DefaultLoadDimension == 128
\* size of one offset-table entry: id 16, offset 8, dimension 4, metadata_size 4
EntrySize == 32

\* ------------------------------------------------------------ option/result
None == <<>>
Some(x) == <<x>>
IsSome(o) == Len(o) = 1
Unwrap(o) == o[1]

Ok(v) == [ok |-> TRUE, err |-> "", val |-> v]
Err(k) == [ok |-> FALSE, err |-> k, val |-> None]

Max(a, b) == IF a >= b THEN a ELSE b

\* ----------------------------------------------------------- byte encodings
\* write_u32 / write_u64 with LittleEndian
\* (n is below 2^31, so the bytes past the fourth are zero)
LE(n, w) == [i \in 1..w |-> IF i <= 4 THEN (n \div (256 ^ (i - 1))) % 256 ELSE 0]

\* read_u32 / read_u64 with LittleEndian.  A value of 2^24 or more is
\* represented by 2^24: every file of the model is far shorter than that, so
\* a count, an offset or a length that large fails the read it is used for
\* exactly as its true value does.
FromLE(b) == IF \A i \in 4..Len(b) : b[i] = 0
             THEN b[1] + 256 * b[2] + 65536 * b[3]
             ELSE 256 * 65536

\* a Uuid is its 16 bytes (Uuid::as_bytes, Uuid::from_bytes)
IdBytes(i) == [k \in 1..16 |-> 16 * i + k]
Ids == { IdBytes(i) : i \in 1..NumIds }

\* two f32 values, as their little-endian bytes: 1.0 and 2.0
F1 == <<0, 0, 128, 63>>
F2 == <<0, 0, 0, 64>>

\* one JSON document, {} ; serde_json::to_vec writes it as the two bytes "{}"
JsonEmptyObject == "{}"
JsonBytes(j) == <<123, 125>>
JsonParse(b) == IF b = JsonBytes(JsonEmptyObject) THEN Ok(Some(JsonEmptyObject))
                ELSE Err("SerializationError")

RECURSIVE Concat(_)
Concat(ss) == IF ss = <<>> THEN <<>> ELSE Head(ss) \o Concat(Tail(ss))

\* bincode::serialize(&Array1<f32>): version u8, dim [usize; 1], then the
\* element sequence with its u64 length
BincodeSerialize(data) ==
    <<ARRAY_FORMAT_VERSION>> \o LE(Len(data), 8) \o LE(Len(data), 8) \o Concat(data)

\* bincode::deserialize::<Array1<f32>>(bytes); trailing bytes are allowed
BincodeDeserialize(b) ==
    IF Len(b) < 17 THEN Err("SerializationError")
    ELSE IF b[1] # ARRAY_FORMAT_VERSION THEN Err("SerializationError")
    ELSE LET dim == FromLE(SubSeq(b, 2, 9))
             n == FromLE(SubSeq(b, 10, 17))
         IN IF Len(b) < 17 + 4 * n THEN Err("SerializationError")
            ELSE IF dim # n THEN Err("SerializationError")
            ELSE Ok(Some([k \in 1..n |-> SubSeq(b, 17 + 4 * (k - 1) + 1, 17 + 4 * k)]))

\* ------------------------------------------------------------------ vectors
Vector(i, d, m) == [id |-> i, data |-> d, metadata |-> m]
Dimension(v) == Len(v.data)

\* the payloads a caller adds: dimension 1 without and with metadata,
\* dimension 2 without metadata
Inputs == { Vector(i, <<F1>>, None) : i \in Ids }
          \cup { Vector(i, <<F2>>, Some(JsonEmptyObject)) : i \in Ids }
          \cup { Vector(i, <<F1, F2>>, None) : i \in Ids }

\* -------------------------------------------------------------- file access
\* seek(SeekFrom::Start(pos)) then write_all(b); a write past the end of the
\* file fills the gap with zeros
WriteAt(f, pos, b) ==
    [i \in 1..Max(Len(f), pos + Len(b)) |->
        IF i > pos /\ i <= pos + Len(b) THEN b[i - pos]
        ELSE IF i <= Len(f) THEN f[i] ELSE 0]

\* read_exact of n bytes at pos succeeds iff the file holds them
CanRead(f, pos, n) == pos + n <= Len(f)
ReadAt(f, pos, n) == SubSeq(f, pos + 1, pos + n)

\* all orders in which a HashMap may iterate over the keys S
Perms(S) == { p \in [1..Cardinality(S) -> S] : \A i, j \in 1..Cardinality(S) : p[i] = p[j] => i = j }

\* HashMap insert / remove; the empty map is <<>>
Put(m, k, v) == [x \in (DOMAIN m) \cup {k} |-> IF x = k THEN v ELSE m[x]]
Remove(m, k) == [x \in (DOMAIN m) \ {k} |-> m[x]]

\* --------------------------------------------------------- the KWI container
Paths == {"kwi", "tmp"}

\* Path::with_extension("tmp") of vectors.kwi and of vectors.tmp
WithExtensionTmp(path) == "tmp"

BinaryIndexOf(path, dim, count, entries) ==
    [file_path |-> path, dimension |-> dim, vector_count |-> count, index_entries |-> entries]

IndexEntry(off, dim, msize) == [offset |-> off, dimension |-> dim, metadata_size |-> msize]

\* the file File::create and the header writes leave
create_new_index(dimension) ==
    KWI_MAGIC \o LE(KWI_VERSION, 4) \o LE(dimension, 4) \o LE(0, 8) \o LE(0, 8)

\* the k-th (from 0) 32-byte entry that load_index reads, starting at byte 28
LoadedEntryId(f, k) == ReadAt(f, 28 + EntrySize * k, 16)
LoadedEntry(f, k) ==
    IndexEntry(FromLE(ReadAt(f, 28 + EntrySize * k + 16, 8)),
               FromLE(ReadAt(f, 28 + EntrySize * k + 24, 4)),
               FromLE(ReadAt(f, 28 + EntrySize * k + 28, 4)))

\* mutant of load_index: the count and the entries are read where update_header
\* writes them, at bytes 16 and 32
load_index_AtWrittenOffsets(path, f) ==
    IF ~CanRead(f, 0, 4) THEN Err("Io")
    ELSE IF ReadAt(f, 0, 4) # KWI_MAGIC THEN Err("PersistenceError")
    ELSE IF ~CanRead(f, 4, 4) THEN Err("Io")
    ELSE IF FromLE(ReadAt(f, 4, 4)) # KWI_VERSION THEN Err("PersistenceError")
    ELSE IF ~CanRead(f, 8, 20) THEN Err("Io")
    ELSE LET dim == FromLE(ReadAt(f, 8, 4))
             count == FromLE(ReadAt(f, 16, 8))
             entryId(k) == ReadAt(f, 32 + EntrySize * k, 16)
             entry(k) == IndexEntry(FromLE(ReadAt(f, 32 + EntrySize * k + 16, 8)),
                                    FromLE(ReadAt(f, 32 + EntrySize * k + 24, 4)),
                                    FromLE(ReadAt(f, 32 + EntrySize * k + 28, 4)))
         IN IF count > 0 /\ ~CanRead(f, 32, EntrySize * count) THEN Err("Io")
            ELSE LET ids == { entryId(k) : k \in 0..(count - 1) }
                     lastOf(id) == CHOOSE k \in 0..(count - 1) :
                                      /\ entryId(k) = id
                                      /\ \A j \in 0..(count - 1) : entryId(j) = id => j <= k
                 IN Ok(Some(BinaryIndexOf(path, dim, count,
                                          [id \in ids |-> entry(lastOf(id))])))

\* load_index on the bytes f of the file at path: Ok(Some(index)) or an error
load_index(path, f) ==
    IF ~CanRead(f, 0, 4) THEN Err("Io")
    ELSE IF ReadAt(f, 0, 4) # KWI_MAGIC THEN Err("PersistenceError")
    ELSE IF ~CanRead(f, 4, 4) THEN Err("Io")
    ELSE IF FromLE(ReadAt(f, 4, 4)) # KWI_VERSION THEN Err("PersistenceError")
    ELSE IF ~CanRead(f, 8, 20) THEN Err("Io")
    ELSE LET dim == FromLE(ReadAt(f, 8, 4))
             count == FromLE(ReadAt(f, 12, 8))
         IN IF ~CanRead(f, 28, EntrySize * count) THEN Err("Io")
            ELSE LET ids == { LoadedEntryId(f, k) : k \in 0..(count - 1) }
                     lastOf(id) == CHOOSE k \in 0..(count - 1) :
                                      /\ LoadedEntryId(f, k) = id
                                      /\ \A j \in 0..(count - 1) :
                                            LoadedEntryId(f, j) = id => j <= k
                 IN Ok(Some(BinaryIndexOf(path, dim, count,
                                          [id \in ids |-> LoadedEntry(f, lastOf(id))])))

\* BinaryIndex::new(path, dimension) on the disk d: the result and the disk
BinaryIndexNew(d, path, dimension) ==
    IF IsSome(d[path])
    THEN [res |-> load_index(path, Unwrap(d[path])), disk |-> d]
    ELSE [res |-> Ok(Some(BinaryIndexOf(path, dimension, 0, <<>>))),
          disk |-> [d EXCEPT ![path] = Some(create_new_index(dimension))]]

\* update_header with the HashMap iterating in the given order
update_header(bi, f, order) ==
    LET entryBytes(id) == id \o LE(bi.index_entries[id].offset, 8)
                             \o LE(bi.index_entries[id].dimension, 4)
                             \o LE(bi.index_entries[id].metadata_size, 4)
        f1 == WriteAt(f, 16, LE(bi.vector_count, 8))
    IN IF order = <<>> THEN f1
       ELSE WriteAt(f1, 32, Concat([k \in 1..Len(order) |-> entryBytes(order[k])]))

\* the bytes add_vector appends for a vector
MetadataBytes(v) == IF IsSome(v.metadata) THEN JsonBytes(Unwrap(v.metadata)) ELSE <<>>
PayloadBytes(v) ==
    BincodeSerialize(v.data) \o LE(Len(MetadataBytes(v)), 4) \o MetadataBytes(v)

\* the index after the in-memory part of BinaryIndex::add_vector
AddedIndex(bi, f, v) ==
    [bi EXCEPT !.index_entries =
                   Put(@, v.id, IndexEntry(Len(f), Dimension(v), Len(MetadataBytes(v)))),
               !.vector_count = @ + 1]

\* BinaryIndex::add_vector on an existing file f: the index and the file
\* afterwards, for one iteration order of the offset table
add_vector_file(bi, f, v, order) ==
    update_header(AddedIndex(bi, f, v), f \o PayloadBytes(v), order)

\* BinaryIndex::get_vector
get_vector(bi, d, id) ==
    IF id \notin DOMAIN bi.index_entries THEN Ok(None)
    ELSE IF ~IsSome(d[bi.file_path]) THEN Err("PersistenceError")
    ELSE LET entry == bi.index_entries[id]
             f == Unwrap(d[bi.file_path])
             data_size == entry.dimension * 4
         IN IF ~CanRead(f, entry.offset, data_size) THEN Err("Io")
            ELSE LET data == BincodeDeserialize(ReadAt(f, entry.offset, data_size))
                 IN IF ~data.ok THEN data
                    ELSE IF ~CanRead(f, entry.offset + data_size, 4) THEN Err("Io")
                    ELSE LET metadata_size == FromLE(ReadAt(f, entry.offset + data_size, 4))
                             mpos == entry.offset + data_size + 4
                         IN IF metadata_size = 0
                            THEN Ok(Some(Vector(id, Unwrap(data.val), None)))
                            ELSE IF ~CanRead(f, mpos, metadata_size) THEN Err("Io")
                            ELSE LET meta == JsonParse(ReadAt(f, mpos, metadata_size))
                                 IN IF ~meta.ok THEN meta
                                    ELSE Ok(Some(Vector(id, Unwrap(data.val), meta.val)))

\* get_all_vectors with the HashMap iterating in the given order: the records,
\* or the first error
get_all_vectors(bi, d, order) ==
    LET r == [k \in 1..Len(order) |-> get_vector(bi, d, order[k])]
    IN IF \E k \in 1..Len(order) : ~r[k].ok
       THEN r[CHOOSE k \in 1..Len(order) : ~r[k].ok /\ \A j \in 1..(k - 1) : r[j].ok]
       ELSE Ok(Some([k \in 1..Len(order) |-> Unwrap(r[k].val)]))

\* the adds of optimize's loop on the temporary container: every (index, file)
\* the loop can end with, over the iteration orders of each header rewrite
RECURSIVE AddAll(_, _, _)
AddAll(bi, f, vs) ==
    IF vs = <<>> THEN { [bi |-> bi, file |-> f] }
    ELSE UNION { AddAll(AddedIndex(bi, f, Head(vs)),
                        add_vector_file(bi, f, Head(vs), o), Tail(vs)) :
                 o \in Perms(DOMAIN AddedIndex(bi, f, Head(vs)).index_entries) }

\* std::fs::rename(from, to)
Rename(d, from, to) ==
    IF from = to THEN d ELSE [d EXCEPT ![to] = d[from], ![from] = None]

\* ------------------------------------------------------------ the side-store
Row(v) == [dimension |-> Dimension(v), data |-> BincodeSerialize(v.data),
           metadata |-> IF IsSome(v.metadata) THEN Some(JsonBytes(Unwrap(v.metadata)))
                        ELSE None]

\* row_to_vector
row_to_vector(id, row) ==
    LET data == BincodeDeserialize(row.data)
    IN IF ~data.ok THEN data
       ELSE IF ~IsSome(row.metadata) THEN Ok(Some(Vector(id, Unwrap(data.val), None)))
       ELSE LET meta == JsonParse(Unwrap(row.metadata))
            IN IF ~meta.ok THEN meta
               ELSE Ok(Some(Vector(id, Unwrap(data.val), meta.val)))

\* SQLiteStorage::get_vector
sqlite_get_vector(rows, id) ==
    IF id \in DOMAIN rows THEN row_to_vector(id, rows[id]) ELSE Ok(None)

\* mutant of insert_vector: INSERT OR IGNORE, the row of a present id is kept
insert_vector_OrIgnore(rows, v) ==
    IF v.id \in DOMAIN rows THEN rows ELSE Put(rows, v.id, Row(v))

\* INSERT OR REPLACE INTO vectors
insert_vector(rows, v) == Put(rows, v.id, Row(v))

\* mutant of sqlite_delete_vector: the DELETE statement is not executed
sqlite_delete_vector_NoOp(rows, id) == rows

\* DELETE FROM vectors WHERE id = ?
sqlite_delete_vector(rows, id) == Remove(rows, id)

\* ------------------------------------------------------------------- state
VARIABLES
    disk,          \* the collection directory: path -> None or Some(bytes)
    dir_exists,    \* the collection directory and metadata.sqlite3 exist
    vectors,       \* the side-store's vectors table: id -> row
    system_info,   \* the side-store's system_info table: key -> value
    collections,   \* the manager's cache: None or Some(Collection)
    live,          \* history: id -> the vector last added with success, until deleted
    hist,          \* history: counters of the calls made so far
    last,          \* history: the last call and its result
    wr,            \* one container seen write by write: its file, its pending writes
    storage,       \* InMemoryStorage::vectors: id -> vector
    index,         \* the index behind `dyn Index`: its kind and its fields
    answer         \* the last query or search and what it returned

\* the state outside the collection manager, which no manager call touches
queries == <<storage, index, answer>>
others == <<wr, queries>>

vars == <<disk, dir_exists, vectors, system_info, collections, live, hist, last, others>>

Collection(dim, bi) == [dimension |-> dim, binary_index |-> bi]

\* hit: the id of the call had a side-store row or an offset-table entry before it
Call(op, res, id, v) ==
    [op |-> op, ok |-> res.ok, err |-> res.err, id |-> id, vector |-> v,
     hit |-> /\ IsSome(id)
             /\ \/ Unwrap(id) \in DOMAIN vectors
                \/ /\ IsSome(collections)
                   /\ Unwrap(id) \in DOMAIN Unwrap(collections).binary_index.index_entries]

Init ==
    /\ disk = [p \in Paths |-> None]
    /\ dir_exists = FALSE
    /\ vectors = <<>>
    /\ system_info = <<>>
    /\ collections = None
    /\ live = <<>>
    /\ hist = [ops |-> 0, adds |-> 0, dels |-> 0, opts |-> 0]
    /\ last = Call("new", Ok(None), None, None)
    /\ wr = [file |-> None, index |-> None, before |-> None, queue |-> <<>>, adds |-> 0]
    /\ storage = <<>>
    /\ index = [kind |-> "brute", indexed_vectors |-> <<>>]
    /\ answer = [op |-> "new", err |-> "", query |-> <<>>, top_k |-> 0, results |-> <<>>,
                 calls |-> 0]

\* CollectionManager::get_collection: Ok(cache afterwards) or the load error
get_collection ==
    IF IsSome(collections) THEN Ok(collections)
    ELSE IF ~dir_exists \/ ~IsSome(disk["kwi"]) THEN Ok(None)
    ELSE LET r == BinaryIndexNew(disk, "kwi", DefaultLoadDimension).res
         IN IF ~r.ok THEN r
            ELSE Ok(Some(Collection(Unwrap(r.val).dimension, Unwrap(r.val))))

\* CollectionManager::get_vector on the cache c, the disk d and the side-store rows
collection_get_vector(c, d, rows, id) ==
    IF ~IsSome(c) THEN Err("StorageError")
    ELSE LET r == get_vector(Unwrap(c).binary_index, d, id)
         IN IF ~r.ok THEN r
            ELSE IF IsSome(r.val) THEN r
            ELSE sqlite_get_vector(rows, id)

mgr_get_vector(id) == collection_get_vector(collections, disk, vectors, id)

\* CollectionManager::count_vectors
mgr_count_vectors ==
    IF ~IsSome(collections) THEN Err("StorageError")
    ELSE Ok(Some(Unwrap(collections).binary_index.vector_count))

\* CollectionManager::get_all_vectors, the HashMap iterating in the given order
mgr_get_all_vectors(order) ==
    IF ~IsSome(collections) THEN Err("StorageError")
    ELSE get_all_vectors(Unwrap(collections).binary_index, disk, order)

Tick(field) == hist' = [hist EXCEPT !.ops = @ + 1, ![field] = @ + 1]
Tock == hist' = [hist EXCEPT !.ops = @ + 1]

\* mutant of HasEntry: delete_vector takes every id for a present one
HasEntry_Always(bi, id) == TRUE

\* self.index_entries.remove(id).is_some() in BinaryIndex::delete_vector
HasEntry(bi, id) == id \in DOMAIN bi.index_entries

\* mutant of DeletedIndex: the entry is removed, the count is not decremented
DeletedIndex_KeepsCount(bi, id) ==
    [bi EXCEPT !.index_entries = Remove(@, id)]

\* the index after the in-memory part of BinaryIndex::delete_vector of a present id
DeletedIndex(bi, id) ==
    [bi EXCEPT !.index_entries = Remove(@, id), !.vector_count = @ - 1]

\* ------------------------------------------------------------------ actions
\* Every action is one call on the manager, lazy load included.  The
\* created_at / updated_at rows of system_info hold wall-clock time and are
\* left out; file and SQLite calls fail only for the reasons the state gives
\* (a missing file, a short read, undecodable bytes).
\* CollectionManager::create_collection(name, dimension)
CreateCollection(dimension) ==
    /\ hist.ops < MaxOps
    /\ UNCHANGED others
    /\ LET n == BinaryIndexNew(disk, "kwi", dimension)
       IN /\ dir_exists' = TRUE
          /\ disk' = n.disk
          /\ IF n.res.ok
             THEN /\ collections' = Some(Collection(dimension, Unwrap(n.res.val)))
                  /\ system_info' = Put(system_info, "dimension", dimension)
             ELSE UNCHANGED <<collections, system_info>>
          /\ last' = Call("create", n.res, None, None)
    /\ UNCHANGED <<vectors, live>>
    /\ Tock

\* CollectionManager::add_vector(name, vector)
AddVector(v) ==
    /\ hist.ops < MaxOps
    /\ UNCHANGED others
    /\ UNCHANGED dir_exists
    /\ LET g == get_collection
       IN IF ~g.ok \/ ~IsSome(g.val)
          THEN /\ last' = Call("add", IF g.ok THEN Err("StorageError") ELSE g, Some(v.id), Some(v))
               /\ UNCHANGED <<disk, vectors, system_info, collections, live>>
               /\ Tock
          ELSE LET coll == Unwrap(g.val)
                   bi == coll.binary_index
               IN IF Dimension(v) # coll.dimension
                  THEN /\ last' = Call("add", Err("StorageError"), Some(v.id), Some(v))
                       /\ collections' = g.val
                       /\ UNCHANGED <<disk, vectors, system_info, live>>
                       /\ Tock
                  ELSE /\ vectors' = insert_vector(vectors, v)
                       /\ IF ~IsSome(disk[bi.file_path])
                          THEN /\ last' = Call("add", Err("PersistenceError"), Some(v.id), Some(v))
                               /\ collections' = g.val
                               /\ UNCHANGED <<disk, system_info, live>>
                               /\ Tock
                          ELSE LET f == Unwrap(disk[bi.file_path])
                                   bi1 == AddedIndex(bi, f, v)
                               IN \E order \in Perms(DOMAIN bi1.index_entries) :
                                    /\ disk' = [disk EXCEPT ![bi.file_path] =
                                                    Some(add_vector_file(bi, f, v, order))]
                                    /\ collections' = Some([coll EXCEPT !.binary_index = bi1])
                                    /\ system_info' = Put(system_info, "vector_count", bi1.vector_count)
                                    /\ live' = Put(live, v.id, v)
                                    /\ last' = Call("add", Ok(None), Some(v.id), Some(v))
                                    /\ Tick("adds")

\* CollectionManager::delete_vector(name, id)
DeleteVector(id) ==
    /\ hist.ops < MaxOps
    /\ UNCHANGED others
    /\ UNCHANGED dir_exists
    /\ LET g == get_collection
       IN IF ~g.ok \/ ~IsSome(g.val)
          THEN /\ last' = Call("delete", IF g.ok THEN Err("StorageError") ELSE g, Some(id), None)
               /\ UNCHANGED <<disk, vectors, system_info, collections, live>>
               /\ Tock
          ELSE LET coll == Unwrap(g.val)
                   bi == coll.binary_index
                   present == id \in DOMAIN bi.index_entries \/ id \in DOMAIN vectors
                   done(bi1) ==
                       /\ collections' = Some([coll EXCEPT !.binary_index = bi1])
                       /\ system_info' = Put(system_info, "vector_count", bi1.vector_count)
                       /\ live' = Remove(live, id)
                       /\ last' = Call("delete", Ok(None), Some(id), None)
                       /\ IF present THEN Tick("dels") ELSE Tock
               IN /\ vectors' = sqlite_delete_vector(vectors, id)
                  /\ IF ~HasEntry(bi, id)
                     THEN /\ done(bi)
                          /\ UNCHANGED disk
                     ELSE IF ~IsSome(disk[bi.file_path])
                     THEN /\ last' = Call("delete", Err("PersistenceError"), Some(id), None)
                          /\ collections' = Some([coll EXCEPT !.binary_index = DeletedIndex(bi, id)])
                          /\ UNCHANGED <<disk, system_info, live>>
                          /\ Tock
                     ELSE LET bi1 == DeletedIndex(bi, id)
                          IN \E order \in Perms(DOMAIN bi1.index_entries) :
                               /\ disk' = [disk EXCEPT ![bi.file_path] =
                                               Some(update_header(bi1, Unwrap(disk[bi.file_path]), order))]
                               /\ done(bi1)

\* CollectionManager::optimize_collection(name), with BinaryIndex::optimize
OptimizeCollection ==
    /\ hist.ops < MaxOps
    /\ UNCHANGED others
    /\ UNCHANGED <<dir_exists, vectors, system_info, live>>
    /\ Tick("opts")
    /\ LET g == get_collection
       IN IF ~g.ok \/ ~IsSome(g.val)
          THEN /\ last' = Call("optimize", IF g.ok THEN Err("StorageError") ELSE g, None, None)
               /\ UNCHANGED <<disk, collections>>
          ELSE LET coll == Unwrap(g.val)
                   bi == coll.binary_index
                   temp_path == WithExtensionTmp(bi.file_path)
                   n == BinaryIndexNew(disk, temp_path, bi.dimension)
               IN IF ~n.res.ok
                  THEN /\ last' = Call("optimize", n.res, None, None)
                       /\ collections' = g.val
                       /\ disk' = n.disk
                  ELSE \E order \in Perms(DOMAIN bi.index_entries) :
                         LET all == get_all_vectors(bi, n.disk, order)
                         IN IF ~all.ok
                            THEN /\ last' = Call("optimize", all, None, None)
                                 /\ collections' = g.val
                                 /\ disk' = n.disk
                            ELSE \E out \in AddAll(Unwrap(n.res.val),
                                                    Unwrap(n.disk[temp_path]), Unwrap(all.val)) :
                                   /\ disk' = Rename([n.disk EXCEPT ![temp_path] = Some(out.file)],
                                                     temp_path, bi.file_path)
                                   /\ collections' = Some([coll EXCEPT !.binary_index = out.bi])
                                   /\ last' = Call("optimize", Ok(None), None, None)

\* the manager is dropped and a new one is constructed on the same base path
DropManager ==
    /\ hist.ops < MaxOps
    /\ UNCHANGED others
    /\ IsSome(collections)
    /\ collections' = None
    /\ last' = Call("new", Ok(None), None, None)
    /\ UNCHANGED <<disk, dir_exists, vectors, system_info, live>>
    /\ Tock

Next ==
    \/ \E dimension \in Dims : CreateCollection(dimension)
    \/ \E v \in Inputs : AddVector(v)
    \/ \E id \in Ids : DeleteVector(id)
    \/ OptimizeCollection
    \/ DropManager

Spec == Init /\ [][Next]_vars

\* ------------------------------------------------------------------- claims
\* the cached collection's container, and what a call observes through it
Container == Unwrap(collections).binary_index
Loaded == IsSome(collections)
IsRecord(r) == r.ok /\ IsSome(r.val)
Reachable == { id \in Ids : IsRecord(get_vector(Container, disk, id)) }

\* a step that is the call op
Called(op) == hist'.ops = hist.ops + 1 /\ last'.op = op

\* what a new container object reads from the file the container writes
Reopened == load_index(Container.file_path, Unwrap(disk[Container.file_path]))

\* the dimension the collection was declared with: the cached collection's,
\* or the header's when the collection is not cached
DeclaredDimension ==
    IF Loaded THEN Unwrap(collections).dimension
    ELSE FromLE(ReadAt(Unwrap(disk["kwi"]), 8, 4))

\* C1 (Identity): every vector added to the collection and not deleted since
\* is returned by get_vector with its id, its data and its metadata.
C1_Identity ==
    Loaded => \A id \in DOMAIN live : mgr_get_vector(id) = Ok(Some(live[id]))

\* C2 (Header consistency): after a successful add, delete or optimize the
\* header vector_count (in memory and in the file, at byte 12), the number of
\* offset-table entries and the number of records get reaches are equal.
C2_HeaderConsistency ==
    (Loaded /\ last.ok /\ last.op \in {"add", "delete", "optimize"}) =>
        /\ Container.vector_count = Cardinality(DOMAIN Container.index_entries)
        /\ Container.vector_count = Cardinality(Reachable)
        /\ IsSome(disk[Container.file_path]) =>
               FromLE(ReadAt(Unwrap(disk[Container.file_path]), 12, 8)) = Container.vector_count

\* C3 (Count): after any sequence of add_vector and delete_vector calls (no
\* optimize), count_vectors is the number of successful adds minus the number
\* of successful deletes of an id that was present.
C3_Count ==
    (Loaded /\ hist.opts = 0) =>
        mgr_count_vectors = Ok(Some(hist.adds - hist.dels))

\* C3 witness: two successful adds of one id and a successful delete of it
\* have happened, and the count is 1 over an empty offset table.
C3_Witness ==
    /\ Loaded /\ hist.opts = 0
    /\ hist.adds = 2 /\ hist.dels = 1
    /\ last.op = "delete" /\ last.ok /\ last.hit
    /\ DOMAIN Container.index_entries = {}
    /\ mgr_count_vectors = Ok(Some(1))

\* C4 (Dimension closure): add_vector on an existing collection succeeds iff
\* the vector's dimension is the collection's; a mismatch is a StorageError
\* that leaves the side-store rows, the container and the file unchanged.
C4_DimensionClosure ==
    [][(Called("add") /\ dir_exists) =>
          LET v == Unwrap(last'.vector)
          IN /\ last'.ok <=> (Dimension(v) = DeclaredDimension)
             /\ (Dimension(v) # DeclaredDimension) =>
                    /\ last'.err = "StorageError"
                    /\ vectors' = vectors /\ disk' = disk
                    /\ Loaded => Container' = Container]_vars

\* C5 (Round-trip persistence): after successful adds and deletes, a new
\* container object reading the same file has the same count and the same
\* ids, and returns for every remaining id the data and metadata added.
C5_RoundTrip ==
    (Loaded /\ hist.opts = 0) =>
        /\ Reopened.ok
        /\ Unwrap(Reopened.val).vector_count = Container.vector_count
        /\ DOMAIN Unwrap(Reopened.val).index_entries = DOMAIN live
        /\ \A id \in DOMAIN live :
               get_vector(Unwrap(Reopened.val), disk, id) = Ok(Some(live[id]))

\* C6 (Optimize neutrality): after optimize the collection returns, for
\* every record it held, the data and metadata that record had, and no
\* other id is present.
C6_OptimizeNeutrality ==
    (Loaded /\ last.op = "optimize") =>
        \A id \in Ids :
            mgr_get_vector(id) = IF id \in DOMAIN live THEN Ok(Some(live[id])) ELSE Ok(None)

\* C7 (Payload immutability): the payload bytes of every live record are
\* the bytes its add appended, after any later add or delete; the offset
\* table, as rewritten, does not overlap a live payload.
C7_PayloadImmutability ==
    (Loaded /\ IsSome(disk[Container.file_path])) =>
        \A id \in (DOMAIN live) \cap (DOMAIN Container.index_entries) :
            LET f == Unwrap(disk[Container.file_path])
                off == Container.index_entries[id].offset
                payload == PayloadBytes(live[id])
            IN /\ CanRead(f, off, Len(payload))
               /\ ReadAt(f, off, Len(payload)) = payload
               /\ 32 + EntrySize * Cardinality(DOMAIN Container.index_entries) <= off

\* C8 (Layout agreement): the count and the offset table that create, add
\* and delete write are the ones open reads back.
C8_LayoutAgreement ==
    (Loaded /\ last.ok /\ last.op \in {"create", "add", "delete"}
            /\ IsSome(disk[Container.file_path])) =>
        /\ Reopened.ok
        /\ Unwrap(Reopened.val).vector_count = Container.vector_count
        /\ Unwrap(Reopened.val).index_entries = Container.index_entries

C10_FailedAddAtomicity ==
    [][(Called("add") /\ ~last'.ok) =>
          /\ vectors' = vectors
          /\ Loaded => /\ Container' = Container
                       /\ collection_get_vector(collections', disk', vectors', Unwrap(last'.id))
                              = mgr_get_vector(Unwrap(last'.id))]_vars

\* ------------------------------------------------- one add, write by write
\* The container of binary_index.rs on its own, with BinaryIndex::add_vector
\* split into the file writes it makes, in the order it makes them.  Another
\* process may open the file between any two of them.
MaxAdds == 2

manager == <<disk, dir_exists, vectors, system_info, collections, live, hist, last>>

Write(pos, bytes) == [pos |-> pos, bytes |-> bytes]

\* the write calls of add_vector's record append, at the end of the file f
PayloadWrites(f, v) ==
    LET data_bytes == BincodeSerialize(v.data)
        metadata_bytes == MetadataBytes(v)
    IN <<Write(Len(f), data_bytes),
         Write(Len(f) + Len(data_bytes), LE(Len(metadata_bytes), 4))>>
       \o (IF metadata_bytes = <<>> THEN <<>>
           ELSE <<Write(Len(f) + Len(data_bytes) + 4, metadata_bytes)>>)

\* the write calls of update_header, the HashMap iterating in the given order
HeaderWrites(bi, order) ==
    LET at(k) == 32 + EntrySize * (k - 1)
        e(k) == bi.index_entries[order[k]]
    IN <<Write(16, LE(bi.vector_count, 8))>>
       \o Concat([k \in 1..Len(order) |->
                    <<Write(at(k), order[k]),
                      Write(at(k) + 16, LE(e(k).offset, 8)),
                      Write(at(k) + 24, LE(e(k).dimension, 4)),
                      Write(at(k) + 28, LE(e(k).metadata_size, 4))>>])

\* BinaryIndex::new on a path that holds no file
WrNew(dimension) ==
    /\ wr.file = None
    /\ wr' = [wr EXCEPT !.file = Some(create_new_index(dimension)),
                        !.index = Some(BinaryIndexOf("kwi", dimension, 0, <<>>)),
                        !.before = Some(BinaryIndexOf("kwi", dimension, 0, <<>>))]
    /\ UNCHANGED <<manager, queries>>

\* add_vector is called: the writes it will make are fixed by the file's
\* length, the vector and the iteration order of the table
WrAddVector(v) ==
    /\ wr.file # None
    /\ wr.queue = <<>>
    /\ wr.adds < MaxAdds
    /\ LET f == Unwrap(wr.file)
           bi1 == AddedIndex(Unwrap(wr.index), f, v)
       IN \E order \in Perms(DOMAIN bi1.index_entries) :
            wr' = [wr EXCEPT !.before = wr.index,
                             !.index = Some(bi1),
                             !.queue = PayloadWrites(f, v) \o HeaderWrites(bi1, order),
                             !.adds = @ + 1]
    /\ UNCHANGED <<manager, queries>>

\* the next write call of the add in progress reaches the file
WrWrite ==
    /\ wr.queue # <<>>
    /\ wr' = [wr EXCEPT !.file = Some(WriteAt(Unwrap(@), Head(wr.queue).pos, Head(wr.queue).bytes)),
                        !.queue = Tail(@)]
    /\ UNCHANGED <<manager, queries>>

NextWrites ==
    \/ \E dimension \in Dims : WrNew(dimension)
    \/ \E v \in Inputs : WrAddVector(v)
    \/ WrWrite

SpecWrites == Init /\ [][NextWrites]_vars

\* what a reader that opens the file now is given
ReaderView == load_index("kwi", Unwrap(wr.file))

\* the count and the table of a container
Published(bi) == [vector_count |-> bi.vector_count, index_entries |-> bi.index_entries]

\* C11: at every point of an add, between any two of its file writes, a reader
\* that opens the file sees the container as it was before the add or as it is
\* after it: the open succeeds, the count and table it reads are those of one
\* of the two, and no entry it reads points past the end of the file.
C11_AppendThenPublish ==
    wr.file # None =>
        /\ ReaderView.ok
        /\ Published(Unwrap(ReaderView.val))
               \in {Published(Unwrap(wr.before)), Published(Unwrap(wr.index))}
        /\ \A id \in DOMAIN Unwrap(ReaderView.val).index_entries :
               Unwrap(ReaderView.val).index_entries[id].offset <= Len(Unwrap(wr.file))

\* ------------------------------------------------ claims on the manager, II
\* the container an add or delete call works on: the cached one, or the one
\* its lazy load reads
Target == Unwrap(get_collection.val).binary_index
Targeted == get_collection.ok /\ IsSome(get_collection.val)

\* the call that just returned was an add of an id already present
DuplicateAdd == Called("add") /\ last'.hit

C13_Upsert ==
    [][DuplicateAdd =>
          LET v == Unwrap(last'.vector)
          IN /\ last'.ok
             /\ collection_get_vector(collections', disk', vectors', v.id) = Ok(Some(v))
             /\ v.id \in DOMAIN vectors'
             /\ v.id \in DOMAIN Container'.index_entries]_vars

\* C14: delete of an id that is not in the offset table returns success and
\* changes neither the table, the count, nor any byte of the file; and after a
\* successful delete the id is not in the table, so that deleting it a second
\* time is such a call and leaves the state the first delete left.
C14_DeleteIdempotent ==
    [][Called("delete") /\ Targeted =>
          LET id == Unwrap(last'.id)
          IN /\ id \notin DOMAIN Target.index_entries =>
                  /\ last'.ok
                  /\ Container' = Target
                  /\ disk' = disk
             /\ last'.ok => id \notin DOMAIN Container'.index_entries]_vars

\* an id has been deleted, and a delete of an id that is in neither store has
\* returned success on a container whose file holds a payload
C14_Witness ==
    /\ last.op = "delete" /\ last.ok /\ ~last.hit
    /\ hist.dels >= 1
    /\ Loaded
    /\ IsSome(disk[Container.file_path])
    /\ Len(Unwrap(disk[Container.file_path])) > Len(create_new_index(1))

\* C15: on a newly constructed manager, before any add, delete or optimize on
\* it, count_vectors, get_all_vectors and get_vector of a collection that is on
\* disk succeed, and get_vector returns the vectors that were persisted.
C15_FreshManagerReads ==
    (last.op = "new" /\ dir_exists /\ IsSome(disk["kwi"])) =>
        /\ mgr_count_vectors.ok
        /\ \A id \in DOMAIN live : mgr_get_vector(id) = Ok(Some(live[id]))
        /\ \A order \in Perms(DOMAIN vectors) : mgr_get_all_vectors(order).ok

\* ------------------------------------------------- destroying the collection
\* the one collection name of the model
CollectionName == "c"

\* CollectionManager::list_collections: the directories of the base path that
\* hold a metadata.sqlite3
list_collections == IF dir_exists THEN {CollectionName} ELSE {}

\* CollectionManager::delete_collection(name): the directory is removed inside
\* `if let Some(_) = self.collections.remove(name)`, and Ok is returned either
\* way.  The history of a removed collection ends with it.
DeleteCollection ==
    /\ hist.ops < MaxOps
    /\ UNCHANGED others
    /\ last' = Call("delete_collection", Ok(None), None, None)
    /\ IF IsSome(collections)
       THEN /\ collections' = None
            /\ dir_exists' = FALSE
            /\ disk' = [p \in Paths |-> None]
            /\ vectors' = <<>>
            /\ system_info' = <<>>
            /\ live' = <<>>
            /\ hist' = [ops |-> hist.ops + 1, adds |-> 0, dels |-> 0, opts |-> 0]
       ELSE /\ UNCHANGED <<collections, dir_exists, disk, vectors, system_info, live>>
            /\ Tock

NextDestroy ==
    \/ Next
    \/ DeleteCollection

SpecDestroy == Init /\ [][NextDestroy]_vars

\* C16: after delete_collection(name) returns success, the collection's
\* directory no longer exists and list_collections() does not contain name,
\* whether or not the collection was in the manager's cache.
C16_CollectionDestruction ==
    (last.op = "delete_collection" /\ last.ok) =>
        /\ ~dir_exists
        /\ CollectionName \notin list_collections

\* --------------------------------------------------------------- f32 values
\* The index family of src/index.rs ranks by cosine similarity.  An f32 is
\* modelled as NaN or as the exact fraction num/den, den > 0.  The vectors
\* below have small integer components and integer norms, so that every
\* product, sum and square root of the kernel is exact in f32 and its one
\* division is correctly rounded: two scores compare in f32 as the fractions do.
Fl(n) == [nan |-> FALSE, num |-> n, den |-> 1]
NaN == [nan |-> TRUE, num |-> 0, den |-> 1]

Abs(n) == IF n < 0 THEN -n ELSE n
Min(a, b) == IF a <= b THEN a ELSE b
RECURSIVE GCD(_, _)
GCD(a, b) == IF b = 0 THEN a ELSE GCD(b, a % b)

FAdd(a, b) ==
    IF a.nan \/ b.nan THEN NaN
    ELSE [nan |-> FALSE, num |-> a.num * b.den + b.num * a.den, den |-> a.den * b.den]
FMul(a, b) ==
    IF a.nan \/ b.nan THEN NaN
    ELSE [nan |-> FALSE, num |-> a.num * b.num, den |-> a.den * b.den]
\* a / b for b other than zero, in lowest terms
FDiv(a, b) ==
    IF a.nan \/ b.nan THEN NaN
    ELSE LET n == IF b.num > 0 THEN a.num * b.den ELSE -(a.num * b.den)
             d == a.den * Abs(b.num)
             g == GCD(Abs(n), d)
         IN [nan |-> FALSE, num |-> n \div g, den |-> d \div g]
\* f32::sqrt of an integer that is a square
FSqrt(a) ==
    IF a.nan THEN NaN ELSE Fl(CHOOSE n \in 0..a.num : n * n = a.num)
\* x == 0.0
FIsZero(a) == ~a.nan /\ a.num = 0
\* a < b, false when either is NaN
FLt(a, b) == ~a.nan /\ ~b.nan /\ a.num * b.den < b.num * a.den
\* f32::partial_cmp
partial_cmp(a, b) ==
    IF a.nan \/ b.nan THEN None
    ELSE IF FLt(a, b) THEN Some("Less")
    ELSE IF FLt(b, a) THEN Some("Greater")
    ELSE Some("Equal")

\* Array1::dot
RECURSIVE dot(_, _)
dot(v1, v2) ==
    IF v1 = <<>> THEN Fl(0)
    ELSE FAdd(FMul(Head(v1), Head(v2)), dot(Tail(v1), Tail(v2)))

\* utils::cosine_similarity
cosine_similarity(v1, v2) ==
    LET dot_product == dot(v1, v2)
        norm1 == FSqrt(dot(v1, v1))
        norm2 == FSqrt(dot(v2, v2))
    IN IF FIsZero(norm1) \/ FIsZero(norm2) THEN Fl(0)
       ELSE FDiv(dot_product, FMul(norm1, norm2))

\* ------------------------------------------------------- slice::sort_by, take
\* the comparator of every ranking in index.rs:
\* |a, b| b.1.partial_cmp(&a.1).unwrap_or(Ordering::Equal)
by_similarity(a, b) ==
    LET c == partial_cmp(b[2], a[2])
    IN IF IsSome(c) THEN Unwrap(c) ELSE "Equal"

\* mutant of is_less: the ranking is ascending
is_less_Ascending(a, b) == by_similarity(b, a) = "Less"

\* sort_by's is_less: compare(a, b) == Less
is_less(a, b) == by_similarity(a, b) = "Less"

\* A slice of at most 20 elements is sorted by insertion.  The standard
\* library has done it in two ways: each element is shifted left into the
\* sorted prefix, or (older releases) each element is inserted at the head of
\* the sorted suffix.  Both are the one stable sort when the comparator is a
\* total preorder; with NaN scores it is not, and the two can differ.
RECURSIVE insert_tail(_, _)
insert_tail(sorted, x) ==
    IF sorted = <<>> \/ ~is_less(x, sorted[Len(sorted)]) THEN Append(sorted, x)
    ELSE Append(insert_tail(SubSeq(sorted, 1, Len(sorted) - 1), x), sorted[Len(sorted)])

RECURSIVE insertion_sort_shift_left(_)
insertion_sort_shift_left(v) ==
    IF v = <<>> THEN <<>>
    ELSE insert_tail(insertion_sort_shift_left(SubSeq(v, 1, Len(v) - 1)), v[Len(v)])

RECURSIVE insert_head(_, _)
insert_head(x, sorted) ==
    IF sorted = <<>> \/ ~is_less(Head(sorted), x) THEN <<x>> \o sorted
    ELSE <<Head(sorted)>> \o insert_head(x, Tail(sorted))

RECURSIVE insertion_sort_insert_head(_)
insertion_sort_insert_head(v) ==
    IF v = <<>> THEN <<>>
    ELSE insert_head(Head(v), insertion_sort_insert_head(Tail(v)))

\* the orders results.sort_by(..) can leave
sort_by(v) == {insertion_sort_shift_left(v), insertion_sort_insert_head(v)}

\* into_iter().take(top_k).collect()
take(v, top_k) == SubSeq(v, 1, Min(top_k, Len(v)))

\* ------------------------------------------------------ the brute-force index
MaxRecords == 3
MaxK == 3

\* the vector data of the index runs, all of dimension 2: two parallel
\* vectors, an orthogonal and an opposite one, one at an angle, the zero
\* vector and a vector with a NaN component
Data ==
    { <<Fl(1), Fl(0)>>, <<Fl(2), Fl(0)>>, <<Fl(0), Fl(1)>>, <<Fl(-1), Fl(0)>>,
      <<Fl(3), Fl(4)>>, <<Fl(0), Fl(0)>>, <<NaN, Fl(0)>> }

\* the slices handed to build: up to MaxRecords (id, data) pairs, ids distinct
Slices ==
    UNION { { [i \in 1..n |-> <<IdBytes(i), d[i]>>] : d \in [1..n -> Data] } : n \in 0..MaxRecords }

\* .iter().map(|(id, vector)| (*id, cosine_similarity(query, vector))).collect()
Scored(records, query) ==
    [i \in 1..Len(records) |-> <<records[i][1], cosine_similarity(query, records[i][2])>>]

\* the (id, score) lists a ranking of the records can return
Ranked(records, query, top_k) ==
    { take(sorted, top_k) : sorted \in sort_by(Scored(records, query)) }

\* BruteForceIndex::query_with_similarity(query, top_k, true)
query_with_similarity(ix, query, top_k) == Ranked(ix.indexed_vectors, query, top_k)

Answer(op, query, top_k, results) ==
    [op |-> op, err |-> "", query |-> query, top_k |-> top_k, results |-> results,
     calls |-> answer.calls + 1]

\* BruteForceIndex::build, as the first call on the index: build clears what
\* the index held, so a later build leaves nothing an earlier call did
BruteBuild(vs) ==
    /\ answer.op = "new"
    /\ index' = [kind |-> "brute", indexed_vectors |-> vs]
    /\ answer' = Answer("build", <<>>, 0, <<>>)
    /\ UNCHANGED <<manager, wr, storage>>

\* <BruteForceIndex as Index>::query.  It takes &self and leaves the index as
\* it is: a later query returns what it would return as the first, so a run
\* makes one
BruteQuery(query, top_k) ==
    /\ index.kind = "brute"
    /\ answer.op # "query"
    /\ \E results \in query_with_similarity(index, query, top_k) :
         answer' = Answer("query", query, top_k, results)
    /\ UNCHANGED <<manager, wr, storage, index>>

NextBrute ==
    \/ \E vs \in Slices : BruteBuild(vs)
    \/ \E query \in Data, top_k \in 0..MaxK : BruteQuery(query, top_k)

SpecBrute == Init /\ [][NextBrute]_vars

\* the records of the index that was queried, and what the query returned
Indexed == IF index.kind = "brute" THEN index.indexed_vectors ELSE index.all_vectors
Queried == answer.op = "query"
ScoreOf(i) == cosine_similarity(answer.query, Indexed[i][2])
Returned == { answer.results[j][1] : j \in 1..Len(answer.results) }

\* C18: query(q, k) on the brute-force index built from S returns exactly
\* min(k, |S|) pairs, each the id of a record of S with its cosine to q, with
\* no score below a later one, and no record left out has a strictly higher
\* similarity to q than a returned one.
C18_BruteForce ==
    (Queried /\ index.kind = "brute") =>
        LET res == answer.results
        IN /\ Len(res) = Min(answer.top_k, Len(Indexed))
           /\ \A j \in 1..Len(res) :
                 /\ \E i \in 1..Len(Indexed) : res[j] = <<Indexed[i][1], ScoreOf(i)>>
                 /\ \A l \in 1..(j - 1) : res[l][1] # res[j][1]
           /\ \A j, l \in 1..Len(res) : j < l => ~FLt(res[j][2], res[l][2])
           /\ \A i \in 1..Len(Indexed) :
                 Indexed[i][1] \notin Returned =>
                     \A j \in 1..Len(res) : ~FLt(res[j][2], ScoreOf(i))

\* the query is the data of the record at position i of the index
SelfQuery(i) == Queried /\ answer.top_k >= 1 /\ Indexed[i][2] = answer.query

LeadsEarlier(i) == \A l \in 1..(i - 1) : FLt(ScoreOf(l), ScoreOf(i))

NumPlanes == 1
MaxLshRecords == 3

\* rng.gen_range(-1.0..1.0): the components a hyperplane is drawn from
Half == [nan |-> FALSE, num |-> 1, den |-> 2]
PlaneCoords == {Fl(-1), Fl(0), Half}

\* the vector data of the LSH runs, of dimension 2
LshData == { <<Fl(1), Fl(0)>>, <<Fl(2), Fl(0)>>, <<Fl(0), Fl(1)>>, <<NaN, Fl(0)>> }

LshSlices ==
    UNION { { [i \in 1..n |-> <<IdBytes(i), d[i]>>] : d \in [1..n -> LshData] } : n \in 0..MaxLshRecords }

\* x >= 0.0, false for NaN
FGeZero(a) == ~a.nan /\ a.num >= 0

\* LSHIndex::compute_hash: bit i is set iff vector.dot(plane i) >= 0.0
RECURSIVE compute_hash(_, _)
compute_hash(hyperplanes, vector) ==
    IF hyperplanes = <<>> THEN 0
    ELSE (IF FGeZero(dot(vector, Head(hyperplanes))) THEN 1 ELSE 0)
         + 2 * compute_hash(Tail(hyperplanes), vector)

\* the records pushed to the bucket of hash h, in build order
RECURSIVE Bucket(_, _, _)
Bucket(hyperplanes, vs, h) ==
    IF vs = <<>> THEN <<>>
    ELSE (IF compute_hash(hyperplanes, Head(vs)[2]) = h THEN <<Head(vs)>> ELSE <<>>)
         \o Bucket(hyperplanes, Tail(vs), h)

LSHIndexOf(num_planes, hyperplanes, vs) ==
    [kind |-> "lsh", num_planes |-> num_planes, hyperplanes |-> hyperplanes,
     buckets |-> [h \in { compute_hash(hyperplanes, vs[i][2]) : i \in 1..Len(vs) } |->
                     Bucket(hyperplanes, vs, h)],
     all_vectors |-> vs]

\* mutant of query_bucket: the candidates are not sorted
query_bucket_Unsorted(ix, query, top_k) ==
    LET hash == compute_hash(ix.hyperplanes, query)
        candidates == IF hash \in DOMAIN ix.buckets THEN ix.buckets[hash] ELSE <<>>
    IN { take(Scored(candidates, query), top_k) }

\* LSHIndex::query_bucket
query_bucket(ix, query, top_k) ==
    LET hash == compute_hash(ix.hyperplanes, query)
        candidates == IF hash \in DOMAIN ix.buckets THEN ix.buckets[hash] ELSE <<>>
    IN Ranked(candidates, query, top_k)

\* <LSHIndex as Index>::query
lsh_query(ix, query, top_k) ==
    UNION { IF Len(results) < top_k THEN Ranked(ix.all_vectors, query, top_k)
            ELSE {results} : results \in query_bucket(ix, query, top_k) }

\* LSHIndex::new(num_planes)
LshNew(num_planes) ==
    /\ index.kind = "brute"
    /\ answer.op = "new"
    /\ index' = LSHIndexOf(num_planes, <<>>, <<>>)
    /\ UNCHANGED <<manager, wr, storage, answer>>

\* LSHIndex::build, as the first call on the index; an empty slice draws no
\* hyperplanes
LshBuild(vs) ==
    /\ index.kind = "lsh"
    /\ answer.op = "new"
    /\ \E hyperplanes \in [1..index.num_planes -> [1..2 -> PlaneCoords]] :
         index' = LSHIndexOf(index.num_planes, IF vs = <<>> THEN <<>> ELSE hyperplanes, vs)
    /\ answer' = Answer("build", <<>>, 0, <<>>)
    /\ UNCHANGED <<manager, wr, storage>>

\* <LSHIndex as Index>::query; like the brute-force query it takes &self
LshQuery(query, top_k) ==
    /\ index.kind = "lsh"
    /\ answer.op # "query"
    /\ \E results \in lsh_query(index, query, top_k) :
         answer' = Answer("query", query, top_k, results)
    /\ UNCHANGED <<manager, wr, storage, index>>

NextLSH ==
    \/ \E num_planes \in 1..NumPlanes : LshNew(num_planes)
    \/ \E vs \in LshSlices : LshBuild(vs)
    \/ \E query \in LshData, top_k \in 0..MaxK : LshQuery(query, top_k)

SpecLSH == Init /\ [][NextLSH]_vars

QueryBucket ==
    LET hash == compute_hash(index.hyperplanes, answer.query)
    IN IF hash \in DOMAIN index.buckets THEN index.buckets[hash] ELSE <<>>

MaxCalls == 3

\* the vector data of the engine runs
EngineData == { <<Fl(1), Fl(0)>>, <<Fl(0), Fl(1)>> }

\* the slices handed to build: (id, data) pairs of distinct ids, in any order
EngineSlices ==
    UNION { { [i \in 1..Len(p) |-> <<p[i], d[i]>>] : d \in [1..Len(p) -> EngineData] } :
            p \in UNION { Perms(S) : S \in SUBSET Ids } }

\* the result of a call on the store: query is the id the call was about,
\* results the id its error carries (DuplicateId(id), MissingId(*id))
Returns(op, id, err) ==
    [Answer(op, id, 0, IF err = "" THEN <<>> ELSE <<id>>) EXCEPT !.err = err]

\* InMemoryStorage::insert: HashMap::insert first, DuplicateId if it replaced
StorageInsert(v) ==
    /\ answer.calls < MaxCalls
    /\ storage' = Put(storage, v.id, v)
    /\ answer' = Returns("insert", v.id,
                        IF v.id \in DOMAIN storage THEN "DuplicateId" ELSE "")
    /\ UNCHANGED <<manager, wr, index>>

\* InMemoryStorage::delete
StorageDelete(id) ==
    /\ answer.calls < MaxCalls
    /\ storage' = Remove(storage, id)
    /\ answer' = Returns("delete", id, IF id \in DOMAIN storage THEN "" ELSE "MissingId")
    /\ UNCHANGED <<manager, wr, index>>

\* InMemoryStorage::get
storage_get(store, id) == IF id \in DOMAIN store THEN Some(store[id]) ELSE None

\* Index::build on the engine's index
EngineBuild(vs) ==
    /\ answer.calls < MaxCalls
    /\ index' = [kind |-> "brute", indexed_vectors |-> vs]
    /\ answer' = Answer("build", <<>>, 0, <<>>)
    /\ UNCHANGED <<manager, wr, storage>>

\* self.index.query(..) through `dyn Index`
index_query(ix, query, top_k) ==
    IF ix.kind = "brute" THEN query_with_similarity(ix, query, top_k)
    ELSE lsh_query(ix, query, top_k)

\* mutant of search_with_scores: an id the store does not hold is returned
\* with an empty record
search_with_scores_KeepAll(store, results) ==
    [j \in 1..Len(results) |->
        <<IF IsSome(storage_get(store, results[j][1]))
          THEN Unwrap(storage_get(store, results[j][1]))
          ELSE Vector(results[j][1], <<>>, None),
          results[j][2]>>]

\* the loop of QueryEngine::search_with_scores over the index's results;
\* search and search_by_vector run the same loop and drop the scores
RECURSIVE search_with_scores(_, _)
search_with_scores(store, results) ==
    IF results = <<>> THEN <<>>
    ELSE (IF IsSome(storage_get(store, Head(results)[1]))
          THEN <<<<Unwrap(storage_get(store, Head(results)[1])), Head(results)[2]>>>>
          ELSE <<>>)
         \o search_with_scores(store, Tail(results))

\* QueryEngine::new(&storage, &index).search_with_scores(query, top_k)
Search(query, top_k) ==
    /\ answer.calls < MaxCalls
    /\ \E results \in index_query(index, query, top_k) :
         answer' = Answer("search", query, top_k, search_with_scores(storage, results))
    /\ UNCHANGED <<manager, wr, storage, index>>

NextEngine ==
    \/ \E id \in Ids, data \in EngineData : StorageInsert(Vector(id, data, None))
    \/ \E id \in Ids : StorageDelete(id)
    \/ \E vs \in EngineSlices : EngineBuild(vs)
    \/ \E query \in EngineData, top_k \in 0..MaxK : Search(query, top_k)

SpecEngine == Init /\ [][NextEngine]_vars

\* the increasing maps of the positions 1..n into the positions 1..m
Embeddings(n, m) == { f \in [1..n -> 1..m] : \A a, b \in 1..n : a < b => f[a] < f[b] }

\* C17: every record a search returns is the store's record of its id; the ids
\* the index returns that the store does not hold are dropped and the others
\* keep the index's order and scores; the result has at most k entries.
C17_NoDanglingId ==
    answer.op = "search" =>
        LET res == answer.results
        IN /\ answer.err = ""
           /\ Len(res) <= answer.top_k
           /\ \A j \in 1..Len(res) :
                 /\ res[j][1].id \in DOMAIN storage
                 /\ res[j][1] = storage[res[j][1].id]
           /\ \E raw \in index_query(index, answer.query, answer.top_k) :
                 \E f \in Embeddings(Len(res), Len(raw)) :
                    /\ \A j \in 1..Len(res) :
                          /\ raw[f[j]][1] \in DOMAIN storage
                          /\ res[j] = <<storage[raw[f[j]][1]], raw[f[j]][2]>>
                    /\ \A i \in 1..Len(raw) :
                          (\A j \in 1..Len(res) : f[j] # i) => raw[i][1] \notin DOMAIN storage

\* a search has dropped the index's best match, which the store does not hold,
\* and returned the match after it
C17_Witness ==
    /\ answer.op = "search"
    /\ Len(answer.results) = 1
    /\ Len(index.indexed_vectors) = 2
    /\ answer.top_k = 2
    /\ index.indexed_vectors[1][1] \notin DOMAIN storage
    /\ index.indexed_vectors[1][2] = answer.query
    /\ index.indexed_vectors[2][2] # answer.query

\* --------------------------------- the InMemoryStorage of the vector_db crate
\* vector_db/src/storage.rs holds a second InMemoryStorage, behind the same
\* Storage trait; the runs of this section hold one of these in `storage`

\* InMemoryStorage::insert of vector_db: HashMap::insert, then Ok(())
VdbStorageInsert(v) ==
    /\ answer.calls < MaxCalls
    /\ storage' = Put(storage, v.id, v)
    /\ answer' = Returns("insert", v.id, "")
    /\ UNCHANGED <<manager, wr, index>>

\* InMemoryStorage::delete of vector_db: HashMap::remove, then Ok(())
VdbStorageDelete(id) ==
    /\ answer.calls < MaxCalls
    /\ storage' = Remove(storage, id)
    /\ answer' = Returns("delete", id, "")
    /\ UNCHANGED <<manager, wr, index>>

\* InMemoryStorage::get of vector_db
VdbStorageGet(id) ==
    /\ answer.calls < MaxCalls
    /\ answer' = Answer("get", id, 0, storage_get(storage, id))
    /\ UNCHANGED <<manager, wr, storage, index>>

NextVdbStorage ==
    \/ \E v \in Inputs : VdbStorageInsert(v)
    \/ \E id \in Ids : VdbStorageDelete(id)
    \/ \E id \in Ids : VdbStorageGet(id)

SpecVdbStorage == Init /\ [][NextVdbStorage]_vars

\* C25: an insert of a vector whose id is already stored returns the error
\* DuplicateId, and the error carries that id.
C25_InsertStrict ==
    [][(answer'.op = "insert" /\ answer'.calls = answer.calls + 1
        /\ answer'.query \in DOMAIN storage)
       => /\ answer'.err = "DuplicateId"
          /\ answer'.results = <<answer'.query>>]_vars

\* C26: a delete of an id that is not stored returns the error MissingId
\* carrying that id and leaves the storage as it was; a delete of a stored id
\* succeeds, lowers the count by one and makes get return absent.
C26_DeleteStrict ==
    [][(answer'.op = "delete" /\ answer'.calls = answer.calls + 1)
       => IF answer'.query \in DOMAIN storage
          THEN /\ answer'.err = ""
               /\ Cardinality(DOMAIN storage') = Cardinality(DOMAIN storage) - 1
               /\ storage_get(storage', answer'.query) = None
          ELSE /\ answer'.err = "MissingId"
               /\ answer'.results = <<answer'.query>>
               /\ storage' = storage]_vars

\* ------------------------------------------- a container file found on disk
\* files another program left at the container's path: a container with one
\* offset-table entry at byte 28, the same with a wrong magic, the same with
\* version 2
ForeignFiles ==
    LET rest == LE(1, 4) \o LE(1, 8) \o LE(0, 8)
                \o IdBytes(1) \o LE(60, 8) \o LE(1, 4) \o LE(0, 4)
    IN { KWI_MAGIC \o LE(KWI_VERSION, 4) \o rest,
         <<75, 87, 74, 0>> \o LE(KWI_VERSION, 4) \o rest,
         KWI_MAGIC \o LE(KWI_VERSION + 1, 4) \o rest }

\* the file is there before the manager is first used
PlaceFile(f) ==
    /\ hist.ops = 0
    /\ ~dir_exists
    /\ dir_exists' = TRUE
    /\ disk' = [disk EXCEPT !["kwi"] = Some(f)]
    /\ UNCHANGED <<vectors, system_info, collections, live, hist, last, others>>

NextForeign == Next \/ \E f \in ForeignFiles : PlaceFile(f)

SpecForeign == Init /\ [][NextForeign]_vars

\* the file at the container's path has another magic or another version
BadFormat ==
    /\ IsSome(disk["kwi"])
    /\ CanRead(Unwrap(disk["kwi"]), 0, 8)
    /\ \/ ReadAt(Unwrap(disk["kwi"]), 0, 4) # KWI_MAGIC
       \/ FromLE(ReadAt(Unwrap(disk["kwi"]), 4, 4)) # KWI_VERSION

\* C24: opening an existing container file whose magic is not "KWI\0" or
\* whose version is not 1 fails with a SerializationError, and no
\* offset-table entry is loaded from that file.
C24_FormatErrors ==
    [][(BadFormat /\ ~Loaded)
       => /\ ~Loaded'
          /\ (last'.op = "create" /\ hist'.ops = hist.ops + 1)
                => (~last'.ok /\ last'.err = "SerializationError")]_vars

\* ---------------------------------------------- claims on the manager, III
\* the ids of the offset table of the collection c: the cached table, or the
\* table the file on the disk d would be loaded with
TableIds(c, d) ==
    IF IsSome(c) THEN DOMAIN Unwrap(c).binary_index.index_entries
    ELSE IF ~IsSome(d["kwi"]) \/ ~load_index("kwi", Unwrap(d["kwi"])).ok THEN {}
    ELSE DOMAIN Unwrap(load_index("kwi", Unwrap(d["kwi"])).val).index_entries

\* the step is a call of one of the four operations, and it succeeded
Succeeded ==
    /\ hist'.ops = hist.ops + 1
    /\ last'.op \in {"create", "add", "delete", "optimize"}
    /\ last'.ok

\* C28: a successful create, add_vector, delete_vector or optimize_collection
\* that starts with the same ids in the side-store and in the offset table
\* ends with the same ids in both; so after every sequence of successful
\* operations the two sets are equal.
C28_TwoStoreConsistency ==
    [][(Succeeded /\ DOMAIN vectors = TableIds(collections, disk))
       => DOMAIN vectors' = TableIds(collections', disk')]_vars

\* C29: after every successful add_vector, delete_vector and
\* optimize_collection the side-store's system_info holds a vector_count, and
\* it is the count that count_vectors returns.
C29_SystemInfoCount ==
    [][(Succeeded /\ last'.op # "create")
       => /\ "vector_count" \in DOMAIN system_info'
          /\ mgr_count_vectors' = Ok(Some(system_info'["vector_count"]))]_vars

\* the dimension in the header of the container file on the disk d
HeaderDimension(d) == FromLE(ReadAt(Unwrap(d["kwi"]), 8, 4))

\* C30: the dimension of a collection never changes after it is first
\* created: the header of the container file keeps the dimension it was
\* created with, and the declared dimension of the cached collection, the
\* container's dimension and the dimension of every record of the offset
\* table are equal to it, after every call on the manager.
C30_FixedDimension ==
    [][/\ IsSome(disk["kwi"]) =>
            IsSome(disk'["kwi"]) /\ HeaderDimension(disk') = HeaderDimension(disk)
       /\ Loaded' =>
            /\ Unwrap(collections').dimension = HeaderDimension(disk')
            /\ Container'.dimension = HeaderDimension(disk')
            /\ \A id \in DOMAIN Container'.index_entries :
                  Container'.index_entries[id].dimension = HeaderDimension(disk')]_vars

\* ------------------------------------------------------------- LocalStorage
\* vector_db/src/local_storage.rs: one file vectors.kwi (the path "kwi" of
\* `disk`) that holds a header and the records one after the other, and
\* metadata.json (`system_info`; its timestamps are left out).  A
\* LocalStorage object holds nothing but its paths.

\* the calls of one run
MaxLocalCalls == 4

\* the byte at which get_vector and get_all_vectors start to read records
LocalReadStart == 16

\* Uuid::to_string: the hyphenated lower-case form, 36 bytes
UuidToString(id) ==
    LET hex(n) == IF n < 10 THEN 48 + n ELSE 87 + n
        group(a, b) == Concat([k \in 1..(b - a + 1) |->
                                  <<hex(id[a + k - 1] \div 16), hex(id[a + k - 1] % 16)>>])
    IN group(1, 4) \o <<45>> \o group(5, 6) \o <<45>> \o group(7, 8) \o <<45>>
       \o group(9, 10) \o <<45>> \o group(11, 16)

\* Uuid::parse_str on at most 36 bytes: the hyphenated form or the simple
\* form of 32 hex digits (the braced and the urn form are longer)
UuidParseStr(s) ==
    LET val(c) == IF c \in 48..57 THEN c - 48
                  ELSE IF c \in 97..102 THEN c - 87
                  ELSE IF c \in 65..70 THEN c - 55 ELSE -1
        hyphens == {9, 14, 19, 24}
        digits == IF Len(s) = 36
                  THEN SelectSeq([k \in 1..36 |-> IF k \in hyphens THEN -2 ELSE val(s[k])],
                                 LAMBDA x : x # -2)
                  ELSE [k \in 1..Len(s) |-> val(s[k])]
    IN IF Len(s) \notin {32, 36} THEN Err("SerializationError")
       ELSE IF Len(s) = 36 /\ \E k \in hyphens : s[k] # 45 THEN Err("SerializationError")
       ELSE IF \E k \in 1..32 : digits[k] = -1 THEN Err("SerializationError")
       ELSE Ok(Some([k \in 1..16 |-> 16 * digits[2 * k - 1] + digits[2 * k]]))

\* std::str::from_utf8(b), then trim_matches('\0').  The only bytes above 127
\* in a file of the model are 0x80 bytes of an f32, which no UTF-8 lead byte
\* precedes: a slice that holds one is not UTF-8.
Utf8Trimmed(b) ==
    IF \E k \in 1..Len(b) : b[k] > 127 THEN Err("SerializationError")
    ELSE LET nz == { k \in 1..Len(b) : b[k] # 0 }
         IN IF nz = {} THEN Ok(Some(<<>>))
            ELSE Ok(Some(SubSeq(b, CHOOSE k \in nz : \A j \in nz : k <= j,
                                   CHOOSE k \in nz : \A j \in nz : k >= j)))

\* the 20 bytes create_vectors_file writes: magic, version, count, reserved
create_vectors_file == KWI_MAGIC \o LE(KWI_VERSION, 4) \o LE(0, 8) \o LE(0, 4)

\* the bytes write_vector_to_file appends
write_vector_to_file(v) ==
    LE(Len(UuidToString(v.id)), 4) \o UuidToString(v.id)
    \o LE(Len(BincodeSerialize(v.data)), 4) \o BincodeSerialize(v.data)
    \o (IF IsSome(v.metadata)
        THEN LE(Len(JsonBytes(Unwrap(v.metadata))), 4) \o JsonBytes(Unwrap(v.metadata))
        ELSE LE(0, 4))

\* read_vector_from_file with the file position at pos: the record or the
\* error, and the position after the record; "EndOfFile" is the
\* PersistenceError whose text is "End of file reached"
read_vector_from_file(f, pos) ==
    LET fail(e) == [res |-> e, next |-> pos]
    IN IF ~CanRead(f, pos, 4) \/ ~CanRead(f, pos + 4, 36) THEN fail(Err("EndOfFile"))
       ELSE LET id_str == Utf8Trimmed(ReadAt(f, pos + 4, 36))
                id == IF id_str.ok THEN UuidParseStr(Unwrap(id_str.val)) ELSE id_str
            IN IF ~id.ok THEN fail(id)
               ELSE IF ~CanRead(f, pos + 40, 4) THEN fail(Err("PersistenceError"))
               ELSE LET data_len == FromLE(ReadAt(f, pos + 40, 4))
                        data == BincodeDeserialize(ReadAt(f, pos + 44, data_len))
                        at == pos + 44 + data_len
                    IN IF ~CanRead(f, pos + 44, data_len) THEN fail(Err("PersistenceError"))
                       ELSE IF ~data.ok THEN fail(data)
                       ELSE IF ~CanRead(f, at, 4) THEN fail(Err("PersistenceError"))
                       ELSE LET metadata_len == FromLE(ReadAt(f, at, 4))
                                bytes == ReadAt(f, at + 4, metadata_len)
                                metadata == IF metadata_len = 0 THEN Ok(None)
                                            ELSE IF ~Utf8Trimmed(bytes).ok
                                            THEN Err("SerializationError")
                                            ELSE JsonParse(bytes)
                            IN IF ~CanRead(f, at + 4, metadata_len)
                               THEN fail(Err("PersistenceError"))
                               ELSE IF ~metadata.ok THEN fail(metadata)
                               ELSE [res |-> Ok(Some(Vector(Unwrap(id.val), Unwrap(data.val),
                                                            metadata.val))),
                                     next |-> at + 4 + metadata_len]

\* the loop of LocalStorage::get_vector from the position pos
RECURSIVE local_scan(_, _, _)
local_scan(f, pos, id) ==
    LET r == read_vector_from_file(f, pos)
    IN IF r.res.ok
       THEN IF Unwrap(r.res.val).id = id THEN r.res ELSE local_scan(f, r.next, id)
       ELSE IF r.res.err = "EndOfFile" THEN Ok(None)
       ELSE r.res

\* LocalStorage::get_vector on the bytes f of vectors.kwi
local_get_vector(f, id) ==
    IF Len(f) <= LocalReadStart THEN Ok(None) ELSE local_scan(f, LocalReadStart, id)

\* LocalStorage::new(base_path): the files are created if they are not there
LocalNew ==
    /\ answer.calls < MaxLocalCalls
    /\ dir_exists' = TRUE
    /\ IF IsSome(disk["kwi"]) THEN UNCHANGED disk
       ELSE disk' = [disk EXCEPT !["kwi"] = Some(create_vectors_file)]
    /\ IF dir_exists THEN UNCHANGED system_info
       ELSE system_info' = [version |-> KWI_VERSION, vector_count |-> 0]
    /\ answer' = Answer("new", <<>>, 0, <<>>)
    /\ UNCHANGED <<vectors, collections, live, hist, last, wr, storage, index>>

\* LocalStorage::add_vector: the record is appended, the count of the header
\* is read and written back plus one, metadata.json is rewritten
LocalAddVector(v) ==
    /\ answer.calls < MaxLocalCalls
    /\ dir_exists
    /\ LET f == Unwrap(disk["kwi"]) \o write_vector_to_file(v)
           count == FromLE(ReadAt(f, 8, 8)) + 1
       IN /\ disk' = [disk EXCEPT !["kwi"] = Some(WriteAt(f, 8, LE(count, 8)))]
          /\ system_info' = [version |-> KWI_VERSION, vector_count |-> count]
    /\ live' = Put(live, v.id, v)
    /\ answer' = Returns("add", v.id, "")
    /\ UNCHANGED <<dir_exists, vectors, collections, hist, last, wr, storage, index>>

\* LocalStorage::get_vector(id)
LocalGetVector(id) ==
    /\ answer.calls < MaxLocalCalls
    /\ dir_exists
    /\ LET r == local_get_vector(Unwrap(disk["kwi"]), id)
       IN answer' = [Answer("get", id, 0, r.val) EXCEPT !.err = r.err]
    /\ UNCHANGED <<manager, wr, storage, index>>

NextLocal ==
    \/ LocalNew
    \/ \E v \in Inputs : LocalAddVector(v)
    \/ \E id \in Ids : LocalGetVector(id)

SpecLocal == Init /\ [][NextLocal]_vars

\* C27: after any sequence of add_vector calls, get_vector returns for every
\* added vector a record with its id, data and metadata, from the same
\* LocalStorage or from a new one on the same path (the object holds no
\* state); the reader starts to decode records at the byte where the writer
\* put the first record.
C27_LocalRoundTrip ==
    \A id \in DOMAIN live :
        /\ LocalReadStart = Len(create_vectors_file)
        /\ local_get_vector(Unwrap(disk["kwi"]), id) = Ok(Some(live[id]))

\* ------------------------------------------------------------ the HNSW index
\* HNSWIndex of src/index.rs.  Nodes are numbered from 1 (the source counts
\* from 0) and neighbours[l + 1] is the neighbour list of level l.  A call
\* that panics is a result with panic = TRUE.
MaxNodes == 3

\* the parameters of HNSWIndex::new, the levels random_level draws (it can
\* return any level), and the vector data: two orthogonal vectors, one at an
\* angle to both, the zero vector, a vector with a NaN component, a vector of
\* another dimension
HnswMs == {0, 1, 2}
HnswEfs == {0, 1, 2, 3}
HnswLevels == {0, 1}
HnswData ==
    { <<Fl(1), Fl(0)>>, <<Fl(0), Fl(1)>>, <<Fl(3), Fl(4)>>, <<Fl(0), Fl(0)>>, <<NaN, Fl(0)>>,
      <<Fl(1)>> }

HNSWIndexOf(m, ef, nodes, entry, max_level) ==
    [kind |-> "hnsw", m |-> m, ef |-> ef, nodes |-> nodes, entry |-> entry,
     max_level |-> max_level]

\* cosine_similarity(a, b) as the index calls it: Array1::dot panics when the
\* two lengths differ
similarity(a, b) ==
    IF Len(a) # Len(b) THEN [panic |-> TRUE, val |-> NaN]
    ELSE [panic |-> FALSE, val |-> cosine_similarity(a, b)]

\* HNSWIndex::distance: 1.0 - cosine_similarity(a, b)
distance(a, b) ==
    [similarity(a, b) EXCEPT !.val = FAdd(Fl(1), FMul(Fl(-1), @))]

\* v.sort_by(|a, b| b.1.partial_cmp(&a.1).unwrap()): every element of a slice
\* of two or more is compared, so one NaN makes unwrap panic; without NaN the
\* comparator is by_similarity and the sort is the stable one
sort_by_unwrap(v) ==
    IF Len(v) >= 2 /\ \E k \in 1..Len(v) : v[k][2].nan THEN [panic |-> TRUE, val |-> <<>>]
    ELSE [panic |-> FALSE, val |-> insertion_sort_shift_left(v)]

\* mutant of prune_neighbours: the sorted list is not truncated
prune_neighbours_NoTruncate(nodes, m, node_idx, level) ==
    LET list == nodes[node_idx].neighbours[level + 1]
        kept(ds, neigh) ==
            IF (\E k \in 1..Len(ds) : ds[k].panic) \/ neigh.panic
            THEN [panic |-> TRUE, nodes |-> nodes]
            ELSE [panic |-> FALSE,
                  nodes |-> [nodes EXCEPT ![node_idx].neighbours[level + 1] =
                                [k \in 1..Len(list) |-> neigh.val[k][1]]]]
        sorted(ds) ==
            kept(ds, sort_by_unwrap([k \in 1..Len(list) |->
                                        <<list[k], FMul(Fl(-1), ds[k].val)>>]))
    IN sorted([k \in 1..Len(list) |->
                  distance(nodes[node_idx].vector, nodes[list[k]].vector)])

\* HNSWIndex::prune_neighbours(node_idx, level): the nodes afterwards.  The
\* source sorts (n, d) ascending by d, |a, b| a.1.partial_cmp(&b.1).unwrap();
\* here the pairs carry -d, for which by_similarity is that comparator.
prune_neighbours(nodes, m, node_idx, level) ==
    LET list == nodes[node_idx].neighbours[level + 1]
        truncated(ds, neigh) ==
            IF (\E k \in 1..Len(ds) : ds[k].panic) \/ neigh.panic
            THEN [panic |-> TRUE, nodes |-> nodes]
            ELSE [panic |-> FALSE,
                  nodes |-> [nodes EXCEPT ![node_idx].neighbours[level + 1] =
                                [k \in 1..Min(m, Len(list)) |-> neigh.val[k][1]]]]
        sorted(ds) ==
            truncated(ds, sort_by_unwrap([k \in 1..Len(list) |->
                                             <<list[k], FMul(Fl(-1), ds[k].val)>>]))
    IN sorted([k \in 1..Len(list) |->
                  distance(nodes[node_idx].vector, nodes[list[k]].vector)])

\* the loops of insert_node that connect the new node idx, from the node i
\* and the level l on; r holds the nodes so far.  Each step pushes the two
\* nodes onto each other's list of the level and prunes a list longer than m.
RECURSIVE connect(_, _, _, _, _)
connect(r, m, idx, i, l) ==
    LET capped(p, node_idx) ==
            IF p.panic \/ Len(p.nodes[node_idx].neighbours[l + 1]) <= m THEN p
            ELSE prune_neighbours(p.nodes, m, node_idx, l)
    IN IF r.panic \/ i >= idx THEN r
       ELSE IF l > Min(r.nodes[idx].level, r.nodes[i].level) THEN connect(r, m, idx, i + 1, 0)
       ELSE connect(capped(capped([r EXCEPT !.nodes[idx].neighbours[l + 1] = Append(@, i),
                                            !.nodes[i].neighbours[l + 1] = Append(@, idx)],
                                  idx), i),
                    m, idx, i, l + 1)

\* mutant of insert_node: a node of the entry point's level replaces it
insert_node_GeLevel(ix, id, vector, level) ==
    LET idx == Len(ix.nodes) + 1
        node == [id |-> id, vector |-> vector, level |-> level,
                 neighbours |-> [l \in 1..(level + 1) |-> <<>>]]
        entry == IF ix.entry = None THEN Some(idx) ELSE ix.entry
        max_level == IF ix.entry = None THEN level ELSE ix.max_level
        done(c) ==
            [panic |-> c.panic,
             index |-> IF ~c.panic /\ level >= max_level
                       THEN HNSWIndexOf(ix.m, ix.ef, c.nodes, Some(idx), level)
                       ELSE HNSWIndexOf(ix.m, ix.ef, c.nodes, entry, max_level)]
    IN done(connect([panic |-> FALSE, nodes |-> Append(ix.nodes, node)], ix.m, idx, 1, 0))

\* mutant of insert_node: the node is made with one neighbour list too many
insert_node_ExtraList(ix, id, vector, level) ==
    LET idx == Len(ix.nodes) + 1
        node == [id |-> id, vector |-> vector, level |-> level,
                 neighbours |-> [l \in 1..(level + 2) |-> <<>>]]
        entry == IF ix.entry = None THEN Some(idx) ELSE ix.entry
        max_level == IF ix.entry = None THEN level ELSE ix.max_level
        done(c) ==
            [panic |-> c.panic,
             index |-> IF ~c.panic /\ level > max_level
                       THEN HNSWIndexOf(ix.m, ix.ef, c.nodes, Some(idx), level)
                       ELSE HNSWIndexOf(ix.m, ix.ef, c.nodes, entry, max_level)]
    IN done(connect([panic |-> FALSE, nodes |-> Append(ix.nodes, node)], ix.m, idx, 1, 0))

\* HNSWIndex::insert_node(id, vector) with the level random_level returned
insert_node(ix, id, vector, level) ==
    LET idx == Len(ix.nodes) + 1
        node == [id |-> id, vector |-> vector, level |-> level,
                 neighbours |-> [l \in 1..(level + 1) |-> <<>>]]
        entry == IF ix.entry = None THEN Some(idx) ELSE ix.entry
        max_level == IF ix.entry = None THEN level ELSE ix.max_level
        done(c) ==
            [panic |-> c.panic,
             index |-> IF ~c.panic /\ level > max_level
                       THEN HNSWIndexOf(ix.m, ix.ef, c.nodes, Some(idx), level)
                       ELSE HNSWIndexOf(ix.m, ix.ef, c.nodes, entry, max_level)]
    IN done(connect([panic |-> FALSE, nodes |-> Append(ix.nodes, node)], ix.m, idx, 1, 0))

\* HNSWIndex::clear
hnsw_clear(ix) == HNSWIndexOf(ix.m, ix.ef, <<>>, None, 0)

\* the loop of HNSWIndex::build from the k-th pair on; r holds the index so far
RECURSIVE hnsw_build(_, _, _, _)
hnsw_build(r, vs, levels, k) ==
    IF r.panic \/ k > Len(vs) THEN r
    ELSE hnsw_build(insert_node(r.index, vs[k][1], vs[k][2], levels[k]), vs, levels, k + 1)

\* one round of the loop of HNSWIndex::greedy_search from `current`: the scan
\* keeps the first neighbour of the least distance below the current node's;
\* the node after the scan is `current` when nothing changed
greedy_round(nodes, query, current, level) ==
    LET list == nodes[current].neighbours[level + 1]
        scan(best_dist, ds) ==
            LET closer == { k \in 1..Len(list) : FLt(ds[k].val, best_dist.val) }
                first == CHOOSE k \in closer :
                            \A j \in closer : /\ ~FLt(ds[j].val, ds[k].val)
                                              /\ j < k => FLt(ds[k].val, ds[j].val)
            IN IF best_dist.panic \/ \E k \in 1..Len(list) : ds[k].panic
               THEN [panic |-> TRUE, node |-> current]
               ELSE IF closer = {} THEN [panic |-> FALSE, node |-> current]
               ELSE [panic |-> FALSE, node |-> list[first]]
    IN scan(distance(query, nodes[current].vector),
            [k \in 1..Len(list) |-> distance(query, nodes[list[k]].vector)])

\* mutant of greedy_search: the loop makes one round only
greedy_search_OneRound(nodes, query, start, level) ==
    greedy_round(nodes, query, start, level)

\* HNSWIndex::greedy_search(query, start, level): the rounds go on until a
\* scan changes nothing
RECURSIVE greedy_search(_, _, _, _)
greedy_search(nodes, query, start, level) ==
    LET changed(r) ==
            IF r.panic \/ r.node = start THEN r
            ELSE greedy_search(nodes, query, r.node, level)
    IN changed(greedy_round(nodes, query, start, level))

\* the descent of query through the levels from level down to 1; g holds the
\* node reached so far
RECURSIVE descend(_, _, _, _)
descend(nodes, query, g, level) ==
    IF g.panic \/ level = 0 THEN g
    ELSE descend(nodes, query, greedy_search(nodes, query, g.node, level), level - 1)

\* mutant of bfs: the search does not look at ef
RECURSIVE bfs_Unbounded(_, _, _, _, _)
bfs_Unbounded(nodes, ef, visited, queue, list) ==
    IF list # <<>>
    THEN IF Head(list) \in visited THEN bfs_Unbounded(nodes, ef, visited, queue, Tail(list))
         ELSE bfs_Unbounded(nodes, ef, visited \cup {Head(list)}, Append(queue, Head(list)),
                            Tail(list))
    ELSE IF queue = <<>> THEN visited
    ELSE bfs_Unbounded(nodes, ef, visited, Tail(queue), nodes[Head(queue)].neighbours[1])

\* the breadth-first search of query at level 0: `list` is what is left of
\* the neighbour list of the node taken from the queue
RECURSIVE bfs(_, _, _, _, _)
bfs(nodes, ef, visited, queue, list) ==
    IF list # <<>>
    THEN IF Cardinality(visited) >= ef THEN visited
         ELSE IF Head(list) \in visited THEN bfs(nodes, ef, visited, queue, Tail(list))
         ELSE bfs(nodes, ef, visited \cup {Head(list)}, Append(queue, Head(list)), Tail(list))
    ELSE IF Cardinality(visited) >= ef \/ queue = <<>> THEN visited
    ELSE bfs(nodes, ef, visited, Tail(queue), nodes[Head(queue)].neighbours[1])

\* <HNSWIndex as Index>::query: the results it can return, one for each order
\* in which the HashSet `visited` may iterate
hnsw_query(ix, query, top_k) ==
    LET ranked(scored) ==
            IF \E k \in 1..Len(scored) : scored[k][2].panic
            THEN [panic |-> TRUE, val |-> <<>>]
            ELSE sort_by_unwrap([k \in 1..Len(scored) |-> <<scored[k][1], scored[k][2].val>>])
        truncated(sorted) == [panic |-> sorted.panic, results |-> take(sorted.val, top_k)]
        search(current) ==
            IF current.panic THEN {[panic |-> TRUE, results |-> <<>>]}
            ELSE { truncated(ranked([k \in 1..Len(order) |->
                                        <<ix.nodes[order[k]].id,
                                          similarity(query, ix.nodes[order[k]].vector)>>])) :
                   order \in Perms(bfs(ix.nodes, ix.ef, {current.node}, <<>>,
                                       ix.nodes[current.node].neighbours[1])) }
    IN IF ix.nodes = <<>> THEN {[panic |-> FALSE, results |-> <<>>]}
       ELSE search(descend(ix.nodes, query, [panic |-> FALSE, node |-> Unwrap(ix.entry)],
                           ix.max_level))

\* HNSWIndex::new(m, ef)
HnswNew(m, ef) ==
    /\ index.kind = "brute"
    /\ answer.op = "new"
    /\ index' = HNSWIndexOf(m, ef, <<>>, None, 0)
    /\ UNCHANGED <<manager, wr, storage, answer>>

\* a call has panicked
Panicked == answer.err = "panic"

\* HNSWIndex::build, as the first call on the index, with the levels
\* random_level returns for the nodes
HnswBuild(vs, levels) ==
    /\ index.kind = "hnsw"
    /\ answer.op = "new"
    /\ \E r \in {hnsw_build([panic |-> FALSE, index |-> hnsw_clear(index)], vs, levels, 1)} :
         /\ index' = r.index
         /\ answer' = [Answer("build", vs, 0, <<>>) EXCEPT
                           !.err = IF r.panic THEN "panic" ELSE ""]
    /\ UNCHANGED <<manager, wr, storage>>

\* HNSWIndex::clear, once after the build
HnswClear ==
    /\ index.kind = "hnsw"
    /\ answer.op = "build" /\ ~Panicked
    /\ index' = hnsw_clear(index)
    /\ answer' = Answer("clear", <<>>, 0, <<>>)
    /\ UNCHANGED <<manager, wr, storage>>

\* <HNSWIndex as Index>::query; it takes &self, so a run makes one
HnswQuery(query, top_k) ==
    /\ index.kind = "hnsw"
    /\ answer.op # "query" /\ ~Panicked
    /\ \E r \in hnsw_query(index, query, top_k) :
         answer' = [Answer("query", query, top_k, r.results) EXCEPT
                        !.err = IF r.panic THEN "panic" ELSE ""]
    /\ UNCHANGED <<manager, wr, storage, index>>

\* the slices handed to build: up to MaxNodes (id, data) pairs, ids distinct
HnswSlices ==
    UNION { { [i \in 1..n |-> <<IdBytes(i), d[i]>>] : d \in [1..n -> HnswData] } :
            n \in 0..MaxNodes }

NextHNSW ==
    \/ \E m \in HnswMs, ef \in HnswEfs : HnswNew(m, ef)
    \/ /\ answer.op = "new"
       /\ \E vs \in HnswSlices : \E levels \in [1..Len(vs) -> HnswLevels] :
             HnswBuild(vs, levels)
    \/ HnswClear
    \/ \E query \in HnswData, top_k \in 0..MaxK : HnswQuery(query, top_k)

SpecHNSW == Init /\ [][NextHNSW]_vars

\* ------------------------------------------------ claims on the HNSW index
\* C21: for an HNSW index built over any vectors, with any levels, m and ef,
\* query(r.data, 1) for a stored record r (the only one with its data)
\* returns one result, and it carries r's id.
C21_SelfQuery ==
    (index.kind = "hnsw" /\ answer.op = "query" /\ answer.top_k = 1)
        => \A i \in 1..Len(index.nodes) :
              (/\ index.nodes[i].vector = answer.query
               /\ \A j \in 1..Len(index.nodes) :
                     j # i => index.nodes[j].vector # answer.query)
                  => /\ answer.err = ""
                     /\ Len(answer.results) = 1
                     /\ answer.results[1][1] = index.nodes[i].id

\* C22: no build, query or clear of an index panics, whatever the vectors, m
\* and ef are: a call ends with a value or with an error value.
C22_NoPanic == answer.err # "panic"

\* the vectors of a slice handed to build are not all of one dimension
Heterogeneous(vs) ==
    \E i, j \in 1..Len(vs) : Len(vs[i][2]) # Len(vs[j][2])

\* C23: build on a slice whose vectors are not all of one dimension returns
\* an IndexError; it neither succeeds nor panics.
C23_MalformedBuild ==
    (index.kind = "hnsw" /\ answer.op = "build" /\ Heterogeneous(answer.query))
        => answer.err = "IndexError"

\* ------------------------------------------------- claims on the manager, IV
\* C31: get_vector(collection, id) on a loaded collection returns the
\* container's record when the offset table has the id, otherwise the
\* side-store's row of the id, and absent only when neither store has the id.
C31_GetFallback ==
    Loaded => \A id \in Ids :
        /\ id \in DOMAIN Container.index_entries
              => /\ IsRecord(mgr_get_vector(id))
                 /\ mgr_get_vector(id) = get_vector(Container, disk, id)
        /\ id \notin DOMAIN Container.index_entries
              => mgr_get_vector(id) = sqlite_get_vector(vectors, id)
        /\ mgr_get_vector(id) = Ok(None)
              <=> (id \notin DOMAIN Container.index_entries /\ id \notin DOMAIN vectors)

\* ------------------------------------------------ claims on the LSH index, II
\* C32: when the bucket of the query's hash holds fewer than k members, the
\* LSH query returns what a brute-force index over the same build input
\* returns for (q, k), of length min(k, n); when the bucket holds at least k
\* members, the result has k entries, every returned id is a member of that
\* bucket, and no score is below a later one.
C32_LshFallback ==
    (Queried /\ index.kind = "lsh") =>
        LET res == answer.results
            k == answer.top_k
        IN /\ Len(QueryBucket) < k
                 => /\ res \in query_with_similarity(
                                  [kind |-> "brute", indexed_vectors |-> index.all_vectors],
                                  answer.query, k)
                    /\ Len(res) = Min(k, Len(index.all_vectors))
           /\ Len(QueryBucket) >= k
                 => /\ Len(res) = k
                    /\ \A j \in 1..Len(res) :
                          \E i \in 1..Len(QueryBucket) : res[j][1] = QueryBucket[i][1]
                    /\ \A j, l \in 1..Len(res) : j < l => ~FLt(res[j][2], res[l][2])

\* --------------------------------------------- claims on the HNSW index, II
\* an HNSW index on which no call has panicked, and its neighbour lists
Built == index.kind = "hnsw" /\ ~Panicked
NodeIds == 1..Len(index.nodes)
ListOf(i, l) == index.nodes[i].neighbours[l + 1]

\* C33: after any inserts every neighbour list of every node at every level
\* has at most m entries, each the index of an existing node other than the
\* node itself, and none listed twice.
C33_NeighbourCap ==
    Built => \A i \in NodeIds : \A l \in 0..(Len(index.nodes[i].neighbours) - 1) :
        /\ Len(ListOf(i, l)) <= index.m
        /\ \A k \in 1..Len(ListOf(i, l)) :
              /\ ListOf(i, l)[k] \in NodeIds \ {i}
              /\ \A j \in 1..(k - 1) : ListOf(i, l)[j] # ListOf(i, l)[k]

\* a build of three nodes with m = 1 has returned: every list of level 0 was
\* pruned and holds one neighbour
C33_Witness ==
    /\ Built /\ answer.op = "build"
    /\ index.m = 1
    /\ Len(index.nodes) = 3
    /\ \A i \in NodeIds : Len(ListOf(i, 0)) = 1

\* C34: the entry point is set exactly when the index holds a node; the entry
\* node's level is max_level, the largest level of all nodes; and a node
\* replaces the entry point only when its level is strictly greater, so the
\* entry point is the first node of that level.
C34_EntryPoint ==
    Built =>
        /\ IsSome(index.entry) <=> index.nodes # <<>>
        /\ index.nodes = <<>> => index.max_level = 0
        /\ index.nodes # <<>> =>
              /\ Unwrap(index.entry) \in NodeIds
              /\ index.nodes[Unwrap(index.entry)].level = index.max_level
              /\ \A i \in NodeIds : index.nodes[i].level <= index.max_level
              /\ \A i \in 1..(Unwrap(index.entry) - 1) :
                    index.nodes[i].level < index.max_level

\* a build of three nodes of the levels 0, 1, 1 has returned: the second node
\* replaced the first as the entry point and the third did not replace it
C34_Witness ==
    /\ Built /\ answer.op = "build"
    /\ Len(index.nodes) = 3
    /\ index.nodes[1].level = 0 /\ index.nodes[2].level = 1 /\ index.nodes[3].level = 1
    /\ index.entry = Some(2)

\* C35: every node has level + 1 neighbour lists and every neighbour listed
\* at level l has a level of at least l; the entry node has a list for every
\* level the descent starts from.
C35_LevelSafety ==
    Built =>
        /\ \A i \in NodeIds :
              /\ Len(index.nodes[i].neighbours) = index.nodes[i].level + 1
              /\ \A l \in 0..index.nodes[i].level :
                    \A k \in 1..Len(ListOf(i, l)) :
                        /\ ListOf(i, l)[k] \in NodeIds
                        /\ index.nodes[ListOf(i, l)[k]].level >= l
        /\ index.nodes # <<>> =>
              Len(index.nodes[Unwrap(index.entry)].neighbours) = index.max_level + 1

\* a build of a node of level 0 and two nodes of level 1 has returned, and
\* the nodes of level 1 list each other at level 1
C35_Witness ==
    /\ Built /\ answer.op = "build"
    /\ Len(index.nodes) = 3
    /\ \E i \in NodeIds : index.nodes[i].level = 0
    /\ \E i \in NodeIds : index.nodes[i].level = 1 /\ ListOf(i, 1) # <<>>

\* the distance of the query to node i
Dist(query, i) == distance(query, index.nodes[i].vector).val

\* the nodes greedy_search goes through from `current`, at most `fuel` moves
RECURSIVE GreedyMoves(_, _, _, _)
GreedyMoves(query, current, level, fuel) ==
    LET moved(r) ==
            IF r.panic \/ r.node = current \/ fuel = 0 THEN <<current>>
            ELSE <<current>> \o GreedyMoves(query, r.node, level, fuel - 1)
    IN moved(greedy_round(index.nodes, query, current, level))

\* the query has the dimension of every node, so that no distance panics
Comparable(query) == \A i \in NodeIds : Len(index.nodes[i].vector) = Len(query)

\* C36: for every start node, level and query, greedy_search ends after
\* fewer moves than there are nodes, each move goes to a node strictly closer
\* to the query, and the node returned has no neighbour at that level that is
\* strictly closer to the query.
C36_GreedyTerminates ==
    (Built /\ answer.op = "build") =>
        \A query \in HnswData : Comparable(query) =>
            \A start \in NodeIds : \A level \in 0..index.nodes[start].level :
                LET p == GreedyMoves(query, start, level, Len(index.nodes))
                    end == p[Len(p)]
                IN /\ Len(p) <= Len(index.nodes)
                   /\ \A j \in 1..(Len(p) - 1) : FLt(Dist(query, p[j + 1]), Dist(query, p[j]))
                   /\ greedy_search(index.nodes, query, start, level)
                         = [panic |-> FALSE, node |-> end]
                   /\ \A k \in 1..Len(ListOf(end, level)) :
                         ~FLt(Dist(query, ListOf(end, level)[k]), Dist(query, end))

\* a build has returned a graph in which greedy_search makes two moves at
\* level 1 for some query
C36_Witness ==
    /\ Built /\ answer.op = "build"
    /\ \E query \in HnswData : Comparable(query) /\
          \E start \in NodeIds :
              /\ index.nodes[start].level = 1
              /\ Len(GreedyMoves(query, start, 1, Len(index.nodes))) = 3

\* the nodes the query has visited at level 0
Visited ==
    LET from(current) ==
            bfs(index.nodes, index.ef, {current.node}, <<>>,
                index.nodes[current.node].neighbours[1])
    IN from(descend(index.nodes, answer.query,
                    [panic |-> FALSE, node |-> Unwrap(index.entry)], index.max_level))

\* the results hold each id at most once, and no score is below a later one
Ordered(res) ==
    /\ \A j, l \in 1..Len(res) : j < l => res[j][1] # res[l][1]
    /\ \A j, l \in 1..Len(res) : j < l => ~FLt(res[j][2], res[l][2])

\* C37 as stated: a query never visits more than ef nodes at level 0 and
\* returns at most min(k, ef) results, each id at most once, in non-increasing
\* score order; a query on an empty index returns the empty result.
C37_VisitBoundEf ==
    (Built /\ answer.op = "query") =>
        /\ index.nodes = <<>> => answer.results = <<>>
        /\ index.nodes # <<>> => Cardinality(Visited) <= index.ef
        /\ Len(answer.results) <= Min(answer.top_k, index.ef)
        /\ Ordered(answer.results)

\* C37, amended: the start node is visited whatever ef is, so a query never
\* visits more than max(ef, 1) nodes at level 0 and returns min(k, visited)
\* results, at most min(k, max(ef, 1)), each id at most once when the ids
\* given to build were distinct, in non-increasing score order; a query on an
\* empty index returns the empty result.
C37_VisitBound ==
    (Built /\ answer.op = "query") =>
        /\ index.nodes = <<>> => answer.results = <<>>
        /\ index.nodes # <<>> =>
              /\ Cardinality(Visited) <= Max(index.ef, 1)
              /\ Len(answer.results) = Min(answer.top_k, Cardinality(Visited))
        /\ Len(answer.results) <= Min(answer.top_k, Max(index.ef, 1))
        /\ Ordered(answer.results)

\* a query for three results on three nodes with ef = 2 has returned two
C37_Witness ==
    /\ Built /\ answer.op = "query"
    /\ Len(index.nodes) = 3
    /\ index.ef = 2 /\ answer.top_k = 3
    /\ Len(answer.results) = 2

\* ----------------------------------------------- claims on the manager, V
\* C38 (Post-optimize usability): after a successful optimize the container
\* refers to the path it was opened with and a file exists at that path, so
\* a later add or delete on the same object is not refused for its file.
C38_UsableAfterOptimize ==
    [][(Called("optimize") /\ last'.ok /\ Targeted) =>
          /\ IsSome(collections')
          /\ Unwrap(collections').binary_index.file_path = Target.file_path
          /\ IsSome(disk'[Unwrap(collections').binary_index.file_path])]_vars

\* ------------------------------------------ claims on the in-memory store
\* C40 (Failed in-memory insert changes nothing): when InMemoryStorage::insert
\* returns DuplicateId, the record stored under the id and the count of the
\* store are those of before the call.
C40_FailedInsertKeeps ==
    [][(answer'.op = "insert" /\ answer'.err = "DuplicateId") =>
          /\ storage'[answer'.query] = storage[answer'.query]
          /\ Cardinality(DOMAIN storage') = Cardinality(DOMAIN storage)]_vars

\* ---------------------------------------- a manager opened over a leftover
\* The directory an earlier process of the program leaves with a file at the
\* temporary path, as CollectionManager::new finds it:
\*   "records": after create_collection(d), two optimize_collection and
\*              add_vector(v): the container has moved to the temporary path
\*              and v was added there, the original path holds an empty container;
\*   "empty":   after create_collection(d), add_vector(v), an optimize_collection
\*              that failed after BinaryIndex::new(&temp_path, ..) and
\*              delete_vector(v.id): an empty container at the temporary path.
LeftoverDisk(kind, d, v) ==
    LET fresh == create_new_index(d)
        added(path) == add_vector_file(BinaryIndexOf(path, d, 0, <<>>), fresh, v, <<v.id>>)
    IN IF kind = "records"
       THEN [p \in Paths |-> IF p = "kwi" THEN Some(fresh) ELSE Some(added("tmp"))]
       ELSE [p \in Paths |->
                IF p = "kwi"
                THEN Some(update_header(BinaryIndexOf("kwi", d, 0, <<>>), added("kwi"), <<>>))
                ELSE Some(fresh)]

InitLeftover ==
    \E kind \in {"records", "empty"}, v \in Inputs :
       /\ disk = LeftoverDisk(kind, Dimension(v), v)
       /\ dir_exists = TRUE
       /\ vectors = IF kind = "records" THEN insert_vector(<<>>, v) ELSE <<>>
       /\ system_info = Put(Put(<<>>, "dimension", Dimension(v)), "vector_count",
                            IF kind = "records" THEN 1 ELSE 0)
       /\ collections = None
       /\ live = IF kind = "records" THEN Put(<<>>, v.id, v) ELSE <<>>
       /\ hist = [ops |-> 0, adds |-> 0, dels |-> 0, opts |-> 0]
       /\ last = Call("new", Ok(None), None, None)
       /\ wr = [file |-> None, index |-> None, before |-> None, queue |-> <<>>, adds |-> 0]
       /\ storage = <<>>
       /\ index = [kind |-> "brute", indexed_vectors |-> <<>>]
       /\ answer = [op |-> "new", err |-> "", query |-> <<>>, top_k |-> 0, results |-> <<>>,
                    calls |-> 0]

SpecLeftover == InitLeftover /\ [][Next]_vars

\* a file exists at the temporary path of the container the call works on
Leftover == Targeted /\ IsSome(disk[WithExtensionTmp(Target.file_path)])

====
